---- MODULE Spec2Model ----
(***************************************************************************)
(* A model of the campaign scheduler (session_orchestrator.py), of the     *)
(* session entry point of the bot (bot_advanced.py), of the campaign       *)
(* handlers of the GUI (gui_pro.py) and of the fingerprint rotation policy *)
(* (fingerprint_rotator.py).                                               *)
(*                                                                         *)
(* Time is in whole seconds.  Rates are in thousandths (0.9 is 900), and   *)
(* every comparison of rates is cross-multiplied so that it decides as the *)
(* floating-point comparison of the source does.                           *)
(*                                                                         *)
(* Specifications:                                                         *)
(*   Spec     one orchestration flow running one campaign (main.py)        *)
(*   SpecGui  the GUI: start/stop handlers and campaign worker threads     *)
(*            sharing one orchestrator and one bot                         *)
(*   SpecOrch overlapping campaigns of one session on one orchestrator     *)
(*   SpecRot  the fingerprint rotator                                      *)
(*   SpecId, SpecHist, SpecBehavior, SpecWatch, SpecPlan                   *)
(*            the identity attributes, the session histories and the pure  *)
(*            generators of stealth_manager.py, behavior_ai.py and the     *)
(*            orchestrator, applied to drawn arguments                     *)
(*   SpecProxy  the proxy manager (residential_proxy.py)                   *)
(*   SpecBot  one bot running sessions step by step, with the task that    *)
(*            initialises its proxy pool                                   *)
(***************************************************************************)
EXTENDS Integers, Sequences, FiniteSets, TLC

VARIABLES
    now,                 \* time.time()
    pc,                  \* per campaign: position of the flow that runs it
    plan,                \* per campaign: OrchestrationPlan
    cd,                  \* per campaign: campaign_data of execute_campaign
    loc,                 \* per campaign: locals of execute_campaign
    wake,                \* per campaign: when the pending await completes
    calls,               \* per campaign: log of bot.run_advanced_session calls
    active_campaigns,    \* SessionOrchestrator.active_campaigns
    completed_campaigns, \* SessionOrchestrator.completed_campaigns
    campaign_history,    \* SessionOrchestrator.campaign_history
    metrics,             \* SessionOrchestrator.metrics
    stats,               \* YouTubeWatchTimeBotAdvanced.stats
    is_running,          \* YouTubeWatchTimeGUI.is_running
    orchestrator,        \* YouTubeWatchTimeGUI.orchestrator is set
    current_fingerprint, \* FingerprintRotator.current_fingerprint
    fingerprint_history, \* FingerprintRotator.fingerprint_history
    fingerprints_generated, \* FingerprintRotator.stats['fingerprints_generated']
    rot_call,            \* the last rotator call: arguments, state before, result
    held,                \* the FingerprintConfig a caller of the rotator holds
    validation,          \* what validate_fingerprint returned for it
    session_history,     \* StealthManager.session_history
    sessions_created,    \* StealthManager.stats['sessions_created']
    view_history,        \* BehaviorAISimulator.session_history
    pattern_usage,       \* BehaviorAISimulator.pattern_usage
    sample,              \* a call of a generator: arguments, random draws, result
    bot,                 \* YouTubeWatchTimeBotAdvanced: browser, position in a session
    proxy_manager        \* ResidentialProxyManager: pool, blacklist, initialisation

vars == <<now, pc, plan, cd, loc, wake, calls, active_campaigns,
          completed_campaigns, campaign_history, metrics, stats, is_running,
          orchestrator, current_fingerprint, fingerprint_history,
          fingerprints_generated, rot_call, held, validation,
          session_history, sessions_created, view_history, pattern_usage,
          sample, bot, proxy_manager>>

campaignVars == <<pc, plan, cd, loc, wake, calls, active_campaigns,
                  completed_campaigns, campaign_history, metrics, stats>>
guiVars == <<is_running, orchestrator>>
rotVars == <<current_fingerprint, fingerprint_history, fingerprints_generated,
             rot_call>>
idVars == <<held, validation>>
histVars == <<session_history, sessions_created, view_history>>
fnVars == <<pattern_usage, sample>>
extVars == <<bot, proxy_manager>>
libVars == <<idVars, histVars, fnVars, extVars>>

----------------------------------------------------------------------------
(* Bounds of the model *)

\* largest num_sessions of a plan in Spec
MaxSessions == 4
\* largest num_sessions of a plan started from the GUI in SpecGui
GuiMaxSessions == 2
\* campaign worker threads the GUI may start
MaxThreads == 2
\* identities the rotator may generate
MaxFingerprints == 52
\* sessions saved to the StealthManager, view sessions the simulator generates
MaxSavedSessions == 102
MaxViewSessions == 102
\* calls of select_behavior_pattern
MaxSelections == 2
\* the clock does not advance past StartTime + MaxElapsed in SpecRot
MaxElapsed == 3700
\* the clock when the program starts
StartTime == 1000

Campaigns == 1..MaxThreads

----------------------------------------------------------------------------
(* SessionPriority and the per-priority tables *)

Priorities == {"high", "medium", "low", "test"}

\* min_gap of _create_session_schedule
MinGap(p) ==
    IF p = "high" THEN 1800
    ELSE IF p = "medium" THEN 900
    ELSE IF p = "low" THEN 300
    ELSE 60

\* max_gap of _create_session_schedule
MaxGap(p) ==
    IF p = "high" THEN 7200
    ELSE IF p = "medium" THEN 3600
    ELSE IF p = "low" THEN 1800
    ELSE 300

\* min_session_gap of _get_stealth_level
min_session_gap(p) ==
    IF p = "high" THEN 1800
    ELSE IF p = "medium" THEN 900
    ELSE IF p = "low" THEN 300
    ELSE 60

\* start_delay of the first session: random.uniform(60, 300)
FirstDelayMin == 60
FirstDelayMax == 300

\* min_success_rate of _create_success_criteria, in thousandths
MinSuccessRate(p) ==
    IF p = "high" THEN 900
    ELSE IF p = "medium" THEN 800
    ELSE IF p = "low" THEN 700
    ELSE 600

\* min_avg_watch of _create_success_criteria, in thousandths
MinAvgWatch(p) ==
    IF p = "high" THEN 700
    ELSE IF p = "medium" THEN 600
    ELSE IF p = "low" THEN 500
    ELSE 400

\* max_detection_risk of _create_success_criteria, in thousandths
MaxDetectionRisk(p) ==
    IF p = "high" THEN 100
    ELSE IF p = "medium" THEN 200
    ELSE IF p = "low" THEN 300
    ELSE 400

MaxConsecutiveFailures == 2
MaxTotalDuration == 86400

create_success_criteria(num_sessions, priority) ==
    [ min_successful_sessions |-> (num_sessions * MinSuccessRate(priority)) \div 1000,
      min_success_rate |-> MinSuccessRate(priority),
      min_average_watch_percentage |-> MinAvgWatch(priority),
      max_detection_risk |-> MaxDetectionRisk(priority),
      max_consecutive_failures |-> MaxConsecutiveFailures,
      max_total_duration |-> MaxTotalDuration ]

----------------------------------------------------------------------------
(* create_campaign_plan *)

\* the delays random.uniform draws for a schedule of n entries: the first
\* from [60, 300], the others from [min_gap, max_gap]; the model draws the
\* ends of each interval
DelayChoices(n, priority) ==
    { d \in [1..n -> {FirstDelayMin, FirstDelayMax, MinGap(priority), MaxGap(priority)}] :
        \A i \in 1..n :
            IF i = 1 THEN d[i] \in {FirstDelayMin, FirstDelayMax}
            ELSE d[i] \in {MinGap(priority), MaxGap(priority)} }

\* the arguments of create_campaign_plan with the delays drawn during the call
PlanInputs(Ns, Ps) ==
    UNION { { [num_sessions |-> n, priority |-> p, delays |-> d] :
                d \in DelayChoices(n, p) } : n \in Ns, p \in Ps }

RECURSIVE schedule_loop(_, _, _, _, _)
\* the loop `for i in range(num_sessions)`: i counts from 0, schedule is the
\* list built so far, current_time the running start time
schedule_loop(i, num_sessions, current_time, delays, schedule) ==
    IF i >= num_sessions THEN schedule
    ELSE LET start_delay == delays[i + 1]
             t == current_time + start_delay
             session_config == [ session_number |-> i + 1,
                                 scheduled_start |-> t ]
         IN schedule_loop(i + 1, num_sessions, t, delays,
                          Append(schedule, session_config))

\* a schedule whose delays are all counted from the time of planning
create_session_schedule_unaccumulated(num_sessions, priority, t0, delays) ==
    [ i \in 1..num_sessions |->
        [ session_number |-> i, scheduled_start |-> t0 + delays[i] ] ]

create_session_schedule(num_sessions, priority, t0, delays) ==
    schedule_loop(0, num_sessions, t0, delays, <<>>)

NoPlan ==
    [ total_sessions |-> 0, priority |-> "none", start_time |-> 0,
      session_schedule |-> <<>>,
      success_criteria |-> create_success_criteria(0, "none") ]

create_campaign_plan(num_sessions, priority, t0, delays) ==
    [ total_sessions |-> num_sessions,
      priority |-> priority,
      start_time |-> t0,
      session_schedule |-> create_session_schedule(num_sessions, priority, t0, delays),
      success_criteria |-> create_success_criteria(num_sessions, priority) ]

----------------------------------------------------------------------------
(* dictionaries *)

EmptyDict == [k \in {} |-> 0]
HasKey(d, k) == k \in DOMAIN d

\* None, where a string is expected
None == "None"

----------------------------------------------------------------------------
(* YouTubeWatchTimeBotAdvanced.run_advanced_session *)

\* how one call of run_advanced_session ends: every step succeeds, a
\* flow reports failure (the bot raises "... failed" itself), or the browser
\* collaborator raises (launch, navigation, selector)
SessionOutcomes == {"ok", "browsing_failed", "collaborator_raised"}

\* watch_data['watch_time'] values of a successful session
WatchTimes == {180}

\* a handler that does not store str(e)
run_advanced_session_no_error(outcome, watch_time) ==
    [ success |-> outcome = "ok", error |-> None,
      watch_data |-> [present |-> outcome = "ok", watch_time |-> watch_time] ]

\* session_data as returned: the try body ran to its end, or the handler
\* `except Exception as e` stored str(e) and success = False
run_advanced_session(outcome, watch_time) ==
    IF outcome = "ok"
    THEN [ success |-> TRUE, error |-> None,
           watch_data |-> [present |-> TRUE, watch_time |-> watch_time] ]
    ELSE IF outcome = "browsing_failed"
    THEN [ success |-> FALSE, error |-> "Browsing flow failed",
           watch_data |-> [present |-> FALSE, watch_time |-> 0] ]
    ELSE [ success |-> FALSE, error |-> "TimeoutError",
           watch_data |-> [present |-> FALSE, watch_time |-> 0] ]

\* self.stats after the call
bot_stats_after(st, result) ==
    IF result.success
    THEN [ st EXCEPT !.total_sessions = @ + 1,
                     !.successful_sessions = @ + 1,
                     !.total_watch_time = @ + result.watch_data.watch_time ]
    ELSE [ st EXCEPT !.total_sessions = @ + 1,
                     !.failed_sessions = @ + 1 ]

----------------------------------------------------------------------------
(* SessionOrchestrator._should_stop_campaign and _check_success_criteria *)

Successful(sessions) ==
    Cardinality({k \in 1..Len(sessions) : sessions[k].result.success})

\* failures among sessions[-3:]
RecentFailures(sessions) ==
    Cardinality({k \in 1..Len(sessions) :
                    k > Len(sessions) - 3 /\ ~sessions[k].result.success})

\* success_rate < min_success_rate * factor/10
RateBelow(successful, n, min_success_rate, factor) ==
    successful * 10000 < n * min_success_rate * factor

\* the check with the failures of the last three sessions compared by >
should_stop_campaign_strict(campaign_data, success_criteria, t) ==
    LET sessions == campaign_data.sessions
        n == Len(sessions)
        successful == Successful(sessions)
    IN  IF n < 3 THEN FALSE
        ELSE IF RecentFailures(sessions) > success_criteria.max_consecutive_failures
        THEN TRUE
        ELSE IF RateBelow(successful, n, success_criteria.min_success_rate, 5)
        THEN TRUE
        ELSE IF /\ campaign_data.start_time # 0
                /\ (t - campaign_data.start_time) * 10 > success_criteria.max_total_duration * 5
                /\ RateBelow(successful, n, success_criteria.min_success_rate, 7)
        THEN TRUE
        ELSE FALSE

should_stop_campaign(campaign_data, success_criteria, t) ==
    LET sessions == campaign_data.sessions
        n == Len(sessions)
        successful == Successful(sessions)
    IN  IF n < 3 THEN FALSE
        ELSE IF RecentFailures(sessions) >= success_criteria.max_consecutive_failures
        THEN TRUE
        ELSE IF RateBelow(successful, n, success_criteria.min_success_rate, 5)
        THEN TRUE
        ELSE IF /\ campaign_data.start_time # 0
                /\ (t - campaign_data.start_time) * 10 > success_criteria.max_total_duration * 5
                /\ RateBelow(successful, n, success_criteria.min_success_rate, 7)
        THEN TRUE
        ELSE FALSE

\* results = campaign_data['results'] is read key by key; the first missing
\* key raises KeyError
check_success_criteria(campaign_data, total_sessions, success_criteria) ==
    LET results == campaign_data.results
    IN  IF ~HasKey(results, "successful_sessions")
        THEN [ raised |-> TRUE, error |-> "'successful_sessions'" ]
        ELSE IF ~HasKey(results, "success_rate")
        THEN [ raised |-> TRUE, error |-> "'success_rate'" ]
        ELSE IF ~HasKey(results, "average_watch_time")
        THEN [ raised |-> TRUE, error |-> "'average_watch_time'" ]
        ELSE IF ~HasKey(results, "detection_events")
        THEN [ raised |-> TRUE, error |-> "'detection_events'" ]
        ELSE IF total_sessions = 0
        THEN [ raised |-> TRUE, error |-> "division by zero" ]
        ELSE [ raised |-> FALSE,
               value |->
                 [ min_successful_sessions |->
                       results.successful_sessions >= success_criteria.min_successful_sessions,
                   min_success_rate |->
                       results.success_rate.num * 1000 >=
                           results.success_rate.den * success_criteria.min_success_rate,
                   min_average_watch |->
                       results.average_watch_time.num * 1000 >=
                           results.average_watch_time.den * 300 *
                               success_criteria.min_average_watch_percentage,
                   max_detection_risk |->
                       results.detection_events * 1000 <=
                           total_sessions * success_criteria.max_detection_risk,
                   max_consecutive_failures |-> TRUE,
                   max_total_duration |->
                       campaign_data.duration <= success_criteria.max_total_duration ] ]

----------------------------------------------------------------------------
(* The state after construction *)

NoCampaign ==
    [ start_time |-> 0, end_time |-> -1, duration |-> -1, sessions |-> <<>>,
      results |-> EmptyDict, status |-> "none", error |-> None ]

NoLocals ==
    [ i |-> 0, successful_sessions |-> 0, failed_sessions |-> 0,
      total_watch_time |-> 0, detection_events |-> 0 ]

\* FingerprintRotator.current_fingerprint = None
NoFingerprint == [ id |-> 0, created_at |-> 0, expires_at |-> 0 ]

\* BehaviorPattern, in the order of the enumeration
BehaviorPatternList ==
    << "casual_browsing", "focused_watching", "multitasking", "research_mode",
       "entertainment" >>
BehaviorPatterns == { BehaviorPatternList[k] : k \in 1..Len(BehaviorPatternList) }

\* no generator was called
NoSample == [ op |-> "none" ]

\* no FingerprintConfig is held, nothing was validated
NoIdentity == [ id |-> -1 ]
NoValidation ==
    [ done |-> FALSE,
      result |-> [ valid |-> TRUE, issues |-> <<>>, warnings |-> <<>>, score |-> 0 ] ]

NoRotCall ==
    [ op |-> "none", force_rotation |-> FALSE, min_time_between |-> 0, at |-> 0,
      before |-> [ current |-> NoFingerprint, history |-> <<>>, generated |-> 0 ],
      ret |-> NoFingerprint ]

\* no bot is constructed yet; browsers are numbered from 1, 0 is None
NoBot ==
    [ pc |-> "none", browser |-> 0, launching |-> 0, open |-> {}, launched |-> {},
      sessions |-> 0, proxy_config |-> "unset", error |-> None ]

\* no ResidentialProxyManager is constructed yet
NoProxyManager ==
    [ use_proxy |-> FALSE, proxy_service |-> "simulated", proxy_selection |-> "round_robin",
      proxies |-> <<>>, blacklist |-> <<>>, rotation_index |-> 0,
      total_requests |-> 0, failed_requests |-> 0, initialize_proxies |-> "none" ]

InitCommon ==
    /\ now = StartTime
    /\ plan = [c \in Campaigns |-> NoPlan]
    /\ cd = [c \in Campaigns |-> NoCampaign]
    /\ loc = [c \in Campaigns |-> NoLocals]
    /\ wake = [c \in Campaigns |-> 0]
    /\ calls = [c \in Campaigns |-> <<>>]
    /\ active_campaigns = <<>>
    /\ completed_campaigns = <<>>
    /\ campaign_history = <<>>
    /\ metrics = [ total_campaigns |-> 0, successful_campaigns |-> 0,
                   failed_campaigns |-> 0, total_sessions |-> 0,
                   total_watch_time |-> 0, peak_concurrent_sessions |-> 0,
                   detection_events |-> 0 ]
    /\ stats = [ total_sessions |-> 0, successful_sessions |-> 0,
                 failed_sessions |-> 0, total_watch_time |-> 0 ]
    /\ is_running = FALSE
    /\ current_fingerprint = NoFingerprint
    /\ fingerprint_history = <<>>
    /\ fingerprints_generated = 0
    /\ rot_call = NoRotCall
    /\ held = NoIdentity
    /\ validation = NoValidation
    /\ session_history = <<>>
    /\ sessions_created = 0
    /\ view_history = <<>>
    /\ pattern_usage = [p \in BehaviorPatterns |-> 0]
    /\ bot = NoBot
    /\ proxy_manager = NoProxyManager

\* main.py: one SessionOrchestrator, one run_campaign
Init ==
    /\ InitCommon
    /\ sample = NoSample
    /\ orchestrator = TRUE
    /\ pc = [c \in Campaigns |-> IF c = 1 THEN "start" ELSE "none"]

----------------------------------------------------------------------------
(* SessionOrchestrator.run_campaign: create_campaign_plan, execute_campaign *)

Max(a, b) == IF a >= b THEN a ELSE b
Min(a, b) == IF a < b THEN a ELSE b

\* the durations of one run_advanced_session call the model draws: a session
\* of five minutes, and one that hangs for longer than half of
\* max_total_duration (no step of the bot has an overall timeout)
SessionDurations == {300, 50000}

\* list.remove(x): the first occurrence is removed
\* a campaign that stays in self.active_campaigns when it returns
active_campaigns_kept(active, c) == active

RECURSIVE ListRemove(_, _)
ListRemove(list, x) ==
    IF list = <<>> THEN <<>>
    ELSE IF Head(list) = x THEN Tail(list)
    ELSE <<Head(list)>> \o ListRemove(Tail(list), x)

\* self.active_campaigns.remove(campaign_data)
active_campaigns_remove(active, c) == ListRemove(active, c)

\* the await of campaign c may complete: no other pending await is due earlier
CanResume(c) ==
    \A o \in Campaigns \ {c} : pc[o] \in {"sleep", "session"} => wake[c] <= wake[o]

\* plan = await self.create_campaign_plan(video_url, num_sessions, priority)
CreatePlan(c, Inputs) ==
    /\ pc[c] = "start"
    /\ \E in \in Inputs :
         plan' = [plan EXCEPT ![c] =
                    create_campaign_plan(in.num_sessions, in.priority, now, in.delays)]
    /\ pc' = [pc EXCEPT ![c] = "planned"]
    /\ UNCHANGED <<now, cd, loc, wake, calls, active_campaigns, completed_campaigns,
                   campaign_history, metrics, stats>>
    /\ UNCHANGED guiVars
    /\ UNCHANGED rotVars
    /\ UNCHANGED libVars

\* execute_campaign up to the loop: campaign_data, active_campaigns, counters
BeginCampaign(c) ==
    /\ pc[c] = "planned"
    /\ cd' = [cd EXCEPT ![c] = [ start_time |-> now, end_time |-> -1, duration |-> -1,
                                 sessions |-> <<>>, results |-> EmptyDict,
                                 status |-> "running", error |-> None ]]
    /\ active_campaigns' = Append(active_campaigns, c)
    /\ metrics' = [metrics EXCEPT !.total_campaigns = @ + 1]
    /\ loc' = [loc EXCEPT ![c] = NoLocals]
    /\ pc' = [pc EXCEPT ![c] = "loop"]
    /\ UNCHANGED <<now, plan, wake, calls, completed_campaigns, campaign_history, stats>>
    /\ UNCHANGED guiVars
    /\ UNCHANGED rotVars
    /\ UNCHANGED libVars

\* the entry the loop is at
Entry(c) == plan[c].session_schedule[loc[c].i + 1]
MoreEntries(c) == loc[c].i < Len(plan[c].session_schedule)

\* a sleep that ends at once
wait_time_none(current_time, scheduled_start) == 0

\* wait_time = scheduled_start - current_time
wait_time(current_time, scheduled_start) == scheduled_start - current_time

\* if current_time < scheduled_start: await asyncio.sleep(wait_time)
Sleep(c) ==
    /\ pc[c] = "loop"
    /\ MoreEntries(c)
    /\ now < Entry(c).scheduled_start
    /\ wake' = [wake EXCEPT ![c] = now + wait_time(now, Entry(c).scheduled_start)]
    /\ pc' = [pc EXCEPT ![c] = "sleep"]
    /\ UNCHANGED <<now, plan, cd, loc, calls, active_campaigns, completed_campaigns,
                   campaign_history, metrics, stats>>
    /\ UNCHANGED guiVars
    /\ UNCHANGED rotVars
    /\ UNCHANGED libVars

\* asyncio.sleep returns
WakeUp(c) ==
    /\ pc[c] = "sleep"
    /\ CanResume(c)
    /\ now' = Max(now, wake[c])
    /\ pc' = [pc EXCEPT ![c] = "ready"]
    /\ UNCHANGED <<plan, cd, loc, wake, calls, active_campaigns, completed_campaigns,
                   campaign_history, metrics, stats>>
    /\ UNCHANGED guiVars
    /\ UNCHANGED rotVars
    /\ UNCHANGED libVars

\* concurrent_sessions: the active campaigns whose status is 'running'
ConcurrentSessions ==
    Cardinality({k \in 1..Len(active_campaigns) :
                    cd[active_campaigns[k]].status = "running"})

\* the peak is updated and self.bot.run_advanced_session(video_url, session_num)
\* is called; the call is pending until the session is over
StartSession(c, Durations) ==
    /\ \/ pc[c] = "ready"
       \/ pc[c] = "loop" /\ MoreEntries(c) /\ ~(now < Entry(c).scheduled_start)
    /\ metrics' = [metrics EXCEPT !.peak_concurrent_sessions = Max(@, ConcurrentSessions)]
    /\ calls' = [calls EXCEPT ![c] = Append(@, [session_num |-> loc[c].i + 1, at |-> now])]
    /\ \E d \in Durations : wake' = [wake EXCEPT ![c] = now + d]
    /\ pc' = [pc EXCEPT ![c] = "session"]
    /\ UNCHANGED <<now, plan, cd, loc, active_campaigns, completed_campaigns,
                   campaign_history, stats>>
    /\ UNCHANGED guiVars
    /\ UNCHANGED rotVars
    /\ UNCHANGED libVars

\* the locals after `if session_result.get('success')`
locals_after(l, session_result) ==
    IF session_result.success
    THEN [ l EXCEPT !.successful_sessions = @ + 1,
                    !.total_watch_time =
                        IF session_result.watch_data.present
                        THEN @ + session_result.watch_data.watch_time ELSE @ ]
    ELSE [ l EXCEPT !.failed_sessions = @ + 1,
                    !.detection_events = @ + 1 ]

\* after `if self._should_stop_campaign(...)`: status and whether the loop breaks
status_after_check(stop, status) == IF stop THEN "stopped_early" ELSE status

\* a loop that runs a failed entry again
next_entry_retry(i, session_result) == IF session_result.success THEN i + 1 ELSE i

\* the entry the loop goes to after a session: enumerate() moves on whatever
\* the result
next_entry(i, session_result) == i + 1

\* run_advanced_session returns; the session is recorded, the counters are
\* updated and the early-stop check is made
EndSession(c, Outcomes) ==
    /\ pc[c] = "session"
    /\ CanResume(c)
    /\ now' = Max(now, wake[c])
    /\ \E outcome \in Outcomes, wt \in WatchTimes :
         LET session_result == run_advanced_session(outcome, wt)
             session_data == [ session_number |-> loc[c].i + 1,
                               result |-> session_result,
                               timestamp |-> now' ]
             recorded == [cd[c] EXCEPT !.sessions = Append(@, session_data)]
             stop == should_stop_campaign(recorded, plan[c].success_criteria, now')
         IN  /\ stats' = bot_stats_after(stats, session_result)
             /\ cd' = [cd EXCEPT ![c] =
                         [recorded EXCEPT !.status = status_after_check(stop, @)]]
             /\ loc' = [loc EXCEPT ![c] =
                         [locals_after(@, session_result) EXCEPT
                             !.i = next_entry(@, session_result)]]
             /\ pc' = [pc EXCEPT ![c] = IF stop THEN "finalize" ELSE "loop"]
    /\ UNCHANGED <<plan, wake, calls, active_campaigns, completed_campaigns,
                   campaign_history, metrics>>
    /\ UNCHANGED guiVars
    /\ UNCHANGED rotVars
    /\ UNCHANGED libVars

\* line 665-667: the loop is over, by exhaustion or by break
campaign_closed(campaign_data, t) ==
    [ campaign_data EXCEPT !.end_time = t,
                           !.status = "completed",
                           !.duration = t - campaign_data.start_time ]

\* a handler that starts the record afresh
campaign_failed_reset(campaign_data, error, t) ==
    [ campaign_data EXCEPT !.status = "failed", !.error = error, !.end_time = t,
                           !.sessions = <<>> ]

\* the handler `except Exception as e` of execute_campaign
campaign_failed(campaign_data, error, t) ==
    [ campaign_data EXCEPT !.status = "failed", !.error = error, !.end_time = t ]

\* campaign_data['results'] = {...}: the dictionary is built first, and its
\* last value is the call of _check_success_criteria on campaign_data, whose
\* 'results' is still the dictionary of line 595
campaign_results(campaign_data, l, total_sessions, success_criteria) ==
    LET met == check_success_criteria(campaign_data, total_sessions, success_criteria)
    IN  IF met.raised THEN met
        ELSE [ raised |-> FALSE,
               value |->
                 [ successful_sessions |-> l.successful_sessions,
                   failed_sessions |-> l.failed_sessions,
                   success_rate |->
                       IF total_sessions > 0
                       THEN [num |-> l.successful_sessions, den |-> total_sessions]
                       ELSE [num |-> 0, den |-> 1],
                   total_watch_time |-> l.total_watch_time,
                   average_watch_time |->
                       IF l.successful_sessions > 0
                       THEN [num |-> l.total_watch_time, den |-> l.successful_sessions]
                       ELSE [num |-> 0, den |-> 1],
                   detection_events |-> l.detection_events,
                   met_success_criteria |-> met.value ] ]

\* self.campaign_history[-50:]
CampaignHistoryCap == 50
LastN(list, n) ==
    IF Len(list) > n THEN SubSeq(list, Len(list) - n + 1, Len(list)) ELSE list

\* execute_campaign after the loop, and its exception handler
Finalize(c) ==
    /\ \/ pc[c] = "finalize"
       \/ pc[c] = "loop" /\ ~MoreEntries(c)
    /\ LET closed == campaign_closed(cd[c], now)
           total == plan[c].total_sessions
           res == campaign_results(closed, loc[c], total, plan[c].success_criteria)
           met_rate == /\ total > 0
                       /\ loc[c].successful_sessions * 1000 >=
                              total * plan[c].success_criteria.min_success_rate
       IN  IF res.raised
           THEN /\ cd' = [cd EXCEPT ![c] = campaign_failed(closed, res.error, now)]
                /\ metrics' = [metrics EXCEPT !.failed_campaigns = @ + 1]
                /\ UNCHANGED campaign_history
           ELSE /\ cd' = [cd EXCEPT ![c] = [closed EXCEPT !.results = res.value]]
                /\ metrics' =
                     [metrics EXCEPT
                        !.total_sessions = @ + total,
                        !.total_watch_time = @ + loc[c].total_watch_time,
                        !.successful_campaigns = IF met_rate THEN @ + 1 ELSE @,
                        !.failed_campaigns = IF met_rate THEN @ ELSE @ + 1,
                        !.detection_events = @ + loc[c].detection_events]
                /\ campaign_history' = LastN(Append(campaign_history, c), CampaignHistoryCap)
    /\ active_campaigns' = active_campaigns_remove(active_campaigns, c)
    /\ completed_campaigns' = Append(completed_campaigns, c)
    /\ pc' = [pc EXCEPT ![c] = "returned"]
    /\ UNCHANGED <<now, plan, loc, wake, calls, stats>>
    /\ UNCHANGED guiVars
    /\ UNCHANGED rotVars
    /\ UNCHANGED libVars

----------------------------------------------------------------------------
(* Spec: one orchestration flow *)

Next ==
    \/ CreatePlan(1, PlanInputs(0..MaxSessions, Priorities))
    \/ BeginCampaign(1)
    \/ Sleep(1)
    \/ WakeUp(1)
    \/ StartSession(1, SessionDurations)
    \/ EndSession(1, SessionOutcomes)
    \/ Finalize(1)

Spec == Init /\ [][Next]_vars

----------------------------------------------------------------------------
(* SpecGui: YouTubeWatchTimeGUI, its handlers and its worker threads *)

InitGui ==
    /\ InitCommon
    /\ sample = NoSample
    /\ orchestrator = FALSE
    /\ pc = [c \in Campaigns |-> "none"]

\* reset_campaign_state
reset_campaign_state(running) == FALSE

\* start_campaign / quick_start -> start_campaign_thread: refused while
\* is_running (a warning, nothing changes), else the flag is set, the
\* orchestrator is created once and a daemon thread is started on
\* run_campaign_async
GuiStart ==
    /\ ~is_running
    /\ \E c \in Campaigns :
         /\ pc[c] = "none"
         /\ \A o \in Campaigns : o < c => pc[o] # "none"
         /\ pc' = [pc EXCEPT ![c] = "start"]
    /\ is_running' = TRUE
    /\ orchestrator' = TRUE
    /\ UNCHANGED <<now, plan, cd, loc, wake, calls, active_campaigns,
                   completed_campaigns, campaign_history, metrics, stats>>
    /\ UNCHANGED rotVars
    /\ UNCHANGED libVars

\* stop_campaign: the button is enabled while is_running; the user answers
\* the confirmation, and on yes reset_campaign_state runs
GuiStop ==
    /\ is_running
    /\ \E response \in BOOLEAN :
         is_running' = IF response THEN reset_campaign_state(is_running) ELSE is_running
    /\ UNCHANGED orchestrator
    /\ UNCHANGED <<now, campaignVars>>
    /\ UNCHANGED rotVars
    /\ UNCHANGED libVars

\* emergency_stop: as stop_campaign, then taskkill on the browser images;
\* a killed browser makes the pending session end as a failure, which is
\* one of the outcomes EndSession draws
GuiEmergencyStop ==
    /\ is_running
    /\ \E response \in BOOLEAN :
         is_running' = IF response THEN reset_campaign_state(is_running) ELSE is_running
    /\ UNCHANGED orchestrator
    /\ UNCHANGED <<now, campaignVars>>
    /\ UNCHANGED rotVars
    /\ UNCHANGED libVars

\* run_campaign_async posts campaign_completed(result) to the main loop;
\* it reads result['results']['success_rate'] first, and the callback ends
\* there with KeyError when the key is missing
CampaignCompleted(c) ==
    /\ pc[c] = "returned"
    /\ pc' = [pc EXCEPT ![c] = "done"]
    /\ is_running' = IF HasKey(cd[c].results, "success_rate") THEN FALSE ELSE is_running
    /\ UNCHANGED orchestrator
    /\ UNCHANGED <<now, plan, cd, loc, wake, calls, active_campaigns,
                   completed_campaigns, campaign_history, metrics, stats>>
    /\ UNCHANGED rotVars
    /\ UNCHANGED libVars

\* what SpecGui draws: plans of the fastest priority with the shortest
\* delays, short sessions, and sessions that succeed or raise
GuiPlanInputs ==
    { in \in PlanInputs(1..GuiMaxSessions, {"test"}) :
        \A i \in 1..in.num_sessions :
            in.delays[i] = IF i = 1 THEN FirstDelayMin ELSE MinGap(in.priority) }
GuiDurations == {300}
GuiOutcomes == {"ok", "collaborator_raised"}

NextGui ==
    \/ GuiStart
    \/ GuiStop
    \/ GuiEmergencyStop
    \/ \E c \in Campaigns :
         \/ CreatePlan(c, GuiPlanInputs)
         \/ BeginCampaign(c)
         \/ Sleep(c)
         \/ WakeUp(c)
         \/ StartSession(c, GuiDurations)
         \/ EndSession(c, GuiOutcomes)
         \/ Finalize(c)
         \/ CampaignCompleted(c)

SpecGui == InitGui /\ [][NextGui]_vars

(* SpecOrch: campaigns of one session each that overlap on the shared       *)
(* orchestrator: a stop confirmed in the GUI lets the next campaign start   *)
(* while the worker of the stopped one runs on.                             *)

OrchPlanInputs == { in \in GuiPlanInputs : in.num_sessions = 1 }

NextOrch ==
    \/ GuiStart
    \/ GuiStop
    \/ \E c \in Campaigns :
         \/ CreatePlan(c, OrchPlanInputs)
         \/ BeginCampaign(c)
         \/ Sleep(c)
         \/ WakeUp(c)
         \/ StartSession(c, GuiDurations)
         \/ EndSession(c, GuiOutcomes)
         \/ Finalize(c)

SpecOrch == InitGui /\ [][NextOrch]_vars

----------------------------------------------------------------------------
(* SpecRot: FingerprintRotator.generate_fingerprint and rotate_fingerprint *)

\* expires_at = time.time() + 3600
FingerprintTTL == 3600
\* if len(self.fingerprint_history) > 50
FingerprintHistoryCap == 50

\* the rotator's state as one value
RotState ==
    [ current |-> current_fingerprint, history |-> fingerprint_history,
      generated |-> fingerprints_generated ]

\* a FingerprintConfig is identified by the order of its generation; the
\* history holds the identities
new_fingerprint(generated, t) ==
    [ id |-> generated + 1, created_at |-> t, expires_at |-> t + FingerprintTTL ]

\* generate_fingerprint keeping the oldest entries of a full history
generate_fingerprint_keep_oldest(st, t) ==
    LET fingerprint == new_fingerprint(st.generated, t)
    IN  [ ret |-> fingerprint,
          current |-> fingerprint,
          history |-> IF Len(st.history) < FingerprintHistoryCap
                      THEN Append(st.history, fingerprint.id) ELSE st.history,
          generated |-> st.generated + 1 ]

\* generate_fingerprint: the state after it and the identity it returns
generate_fingerprint(st, t) ==
    LET fingerprint == new_fingerprint(st.generated, t)
    IN  [ ret |-> fingerprint,
          current |-> fingerprint,
          history |-> LastN(Append(st.history, fingerprint.id), FingerprintHistoryCap),
          generated |-> st.generated + 1 ]

\* the test `if not self.current_fingerprint`
is_none(fingerprint) == fingerprint = NoFingerprint

\* the test `if current_time > self.current_fingerprint.expires_at`
is_expired(fingerprint, current_time) == current_time > fingerprint.expires_at

\* the age compared by >=
is_due_inclusive(fingerprint, current_time, min_time_between) ==
    current_time - fingerprint.created_at >= min_time_between

\* the test `if time_since_last > min_time_between`
is_due(fingerprint, current_time, min_time_between) ==
    current_time - fingerprint.created_at > min_time_between

\* rotate_fingerprint: the state after it and what it returns (NoFingerprint
\* for None)
rotate_fingerprint(st, force_rotation, min_time_between, current_time) ==
    IF is_none(st.current) THEN generate_fingerprint(st, current_time)
    ELSE IF is_expired(st.current, current_time) THEN generate_fingerprint(st, current_time)
    ELSE IF force_rotation THEN generate_fingerprint(st, current_time)
    ELSE IF is_due(st.current, current_time, min_time_between)
    THEN generate_fingerprint(st, current_time)
    ELSE [ ret |-> NoFingerprint, current |-> st.current, history |-> st.history,
           generated |-> st.generated ]

\* the values of min_time_between the model draws: the default, and one
\* longer than the time to live
MinTimesBetween == {300, 7200}

\* the steps of the clock between two calls
ClockSteps == {300, 301, 3300}

GenerateFingerprint ==
    /\ fingerprints_generated < MaxFingerprints
    /\ LET after == generate_fingerprint(RotState, now)
       IN  /\ current_fingerprint' = after.current
           /\ fingerprint_history' = after.history
           /\ fingerprints_generated' = after.generated
           /\ rot_call' = [ NoRotCall EXCEPT !.op = "generate", !.at = now,
                                             !.before = RotState, !.ret = after.ret ]
    /\ UNCHANGED <<now, campaignVars>>
    /\ UNCHANGED guiVars
    /\ UNCHANGED libVars

RotateFingerprint ==
    \E force_rotation \in BOOLEAN, min_time_between \in MinTimesBetween :
        LET after == rotate_fingerprint(RotState, force_rotation, min_time_between, now)
        IN  /\ after.generated <= MaxFingerprints
            /\ current_fingerprint' = after.current
            /\ fingerprint_history' = after.history
            /\ fingerprints_generated' = after.generated
            /\ rot_call' = [ op |-> "rotate", force_rotation |-> force_rotation,
                             min_time_between |-> min_time_between, at |-> now,
                             before |-> RotState, ret |-> after.ret ]
            /\ UNCHANGED <<now, campaignVars>>
            /\ UNCHANGED guiVars
            /\ UNCHANGED libVars

\* time passes between two calls
ClockAdvance ==
    /\ \E d \in ClockSteps :
         /\ now + d <= StartTime + MaxElapsed
         /\ now' = now + d
    /\ rot_call' = NoRotCall
    /\ UNCHANGED <<current_fingerprint, fingerprint_history, fingerprints_generated>>
    /\ UNCHANGED campaignVars
    /\ UNCHANGED guiVars
    /\ UNCHANGED libVars

NextRot ==
    \/ GenerateFingerprint
    \/ RotateFingerprint
    \/ ClockAdvance

SpecRot == InitGui /\ [][NextRot]_vars

----------------------------------------------------------------------------
(* SpecId: the FingerprintConfig that generate_fingerprint builds, and     *)
(* validate_fingerprint                                                    *)

\* FingerprintType
FingerprintTypes ==
    { "desktop_chrome", "desktop_firefox", "desktop_safari", "mobile_chrome",
      "mobile_safari", "tablet_chrome", "linux_firefox", "edge" }

\* _load_fingerprint_templates: the fields generate_fingerprint and
\* validate_fingerprint use
templates(fingerprint_type) ==
    CASE fingerprint_type = "desktop_chrome" ->
           [ browser_name |-> "Chrome", device_type |-> "desktop",
             common_resolutions |-> { <<1920, 1080>>, <<1366, 768>>, <<1536, 864>>,
                                      <<1440, 900>>, <<1280, 720>>, <<2560, 1440>> },
             common_platforms |-> { "Win32", "Win64", "MacIntel" },
             webgl_vendors |-> { "Google Inc.", "Intel Inc.", "NVIDIA Corporation", "AMD" } ]
      [] fingerprint_type = "desktop_firefox" ->
           [ browser_name |-> "Firefox", device_type |-> "desktop",
             common_resolutions |-> { <<1920, 1080>>, <<1366, 768>>, <<1600, 900>>,
                                      <<1280, 720>>, <<1440, 900>>, <<2560, 1440>> },
             common_platforms |-> { "Win32", "Win64", "MacIntel", "Linux x86_64" },
             webgl_vendors |-> { "Mozilla", "Intel Inc.", "NVIDIA Corporation", "AMD" } ]
      [] fingerprint_type = "desktop_safari" ->
           [ browser_name |-> "Safari", device_type |-> "desktop",
             common_resolutions |-> { <<1440, 900>>, <<1680, 1050>>, <<1920, 1080>>,
                                      <<2560, 1600>>, <<2880, 1800>> },
             common_platforms |-> { "MacIntel" },
             webgl_vendors |-> { "Apple Inc.", "Intel Inc." } ]
      [] fingerprint_type = "mobile_chrome" ->
           [ browser_name |-> "Chrome", device_type |-> "mobile",
             common_resolutions |-> { <<360, 640>>, <<375, 667>>, <<414, 896>>,
                                      <<360, 740>>, <<393, 851>>, <<412, 915>> },
             common_platforms |-> { "Linux armv8l", "Linux aarch64" },
             webgl_vendors |-> { "Google Inc.", "Qualcomm", "ARM" } ]
      [] fingerprint_type = "mobile_safari" ->
           [ browser_name |-> "Safari", device_type |-> "mobile",
             common_resolutions |-> { <<375, 667>>, <<414, 896>>, <<390, 844>>,
                                      <<428, 926>>, <<393, 852>> },
             common_platforms |-> { "iPhone" },
             webgl_vendors |-> { "Apple Inc." } ]
      [] fingerprint_type = "tablet_chrome" ->
           [ browser_name |-> "Chrome", device_type |-> "tablet",
             common_resolutions |-> { <<768, 1024>>, <<800, 1280>>, <<1024, 1366>>,
                                      <<1200, 1920>>, <<1536, 2048>> },
             common_platforms |-> { "Linux armv8l", "Linux aarch64" },
             webgl_vendors |-> { "Google Inc.", "Qualcomm", "ARM" } ]
      [] fingerprint_type = "linux_firefox" ->
           [ browser_name |-> "Firefox", device_type |-> "desktop",
             common_resolutions |-> { <<1920, 1080>>, <<1366, 768>>, <<1600, 900>>,
                                      <<1280, 720>>, <<2560, 1440>> },
             common_platforms |-> { "Linux x86_64" },
             webgl_vendors |-> { "Mozilla", "Intel Inc.", "NVIDIA Corporation", "AMD" } ]
      [] OTHER ->
           [ browser_name |-> "Edg", device_type |-> "desktop",
             common_resolutions |-> { <<1920, 1080>>, <<1366, 768>>, <<1536, 864>>,
                                      <<1440, 900>>, <<1280, 720>>, <<2560, 1440>> },
             common_platforms |-> { "Win32", "Win64" },
             webgl_vendors |-> { "Google Inc.", "Intel Inc.", "NVIDIA Corporation", "AMD" } ]

\* the words of the user-agent strings that the program looks for: a user
\* agent is the set of those it contains, and the major version that fills
\* every {version} of its template
UaWindowsChrome == { "Windows", "Win64", "AppleWebKit", "Chrome/", "Safari/" }
UaMacChrome == { "Macintosh", "Mac OS X", "AppleWebKit", "Chrome/", "Safari/" }
UaLinuxChrome == { "X11", "Linux", "AppleWebKit", "Chrome/", "Safari/" }
UaWindowsFirefox == { "Windows", "Win64", "Gecko/", "Firefox/" }
UaMacFirefox == { "Macintosh", "Mac OS X", "Gecko/", "Firefox/" }
UaLinuxFirefox == { "X11", "Linux", "Gecko/", "Firefox/" }
UaMacSafari == { "Macintosh", "Mac OS X", "AppleWebKit", "Version/", "Safari/" }
UaAndroidPhone == { "Linux", "Android", "AppleWebKit", "Chrome/", "Mobile", "Safari/" }
UaIPhone == { "iPhone", "Mac OS X", "AppleWebKit", "Version/", "Mobile", "Safari/" }
UaAndroidTablet == { "Linux", "Android", "AppleWebKit", "Chrome/", "Safari/" }
UaEdge == { "Windows", "Win64", "AppleWebKit", "Chrome/", "Safari/", "Edg/" }

\* the templates with a desktop template among those of Chrome on a phone
ua_templates_desktop_phone(fingerprint_type) ==
    CASE fingerprint_type = "desktop_chrome" ->
           << UaWindowsChrome, UaWindowsChrome, UaMacChrome, UaLinuxChrome >>
      [] fingerprint_type = "desktop_firefox" ->
           << UaWindowsFirefox, UaMacFirefox, UaLinuxFirefox >>
      [] fingerprint_type = "desktop_safari" -> << UaMacSafari, UaMacSafari >>
      [] fingerprint_type = "mobile_chrome" -> << UaAndroidPhone, UaWindowsChrome >>
      [] fingerprint_type = "mobile_safari" -> << UaIPhone >>
      [] fingerprint_type = "tablet_chrome" -> << UaAndroidTablet >>
      [] fingerprint_type = "linux_firefox" -> << UaLinuxFirefox >>
      [] OTHER -> << UaEdge >>

\* ua_templates of _generate_user_agent
ua_templates(fingerprint_type) ==
    CASE fingerprint_type = "desktop_chrome" ->
           << UaWindowsChrome, UaWindowsChrome, UaMacChrome, UaLinuxChrome >>
      [] fingerprint_type = "desktop_firefox" ->
           << UaWindowsFirefox, UaMacFirefox, UaLinuxFirefox >>
      [] fingerprint_type = "desktop_safari" -> << UaMacSafari, UaMacSafari >>
      [] fingerprint_type = "mobile_chrome" -> << UaAndroidPhone, UaAndroidPhone >>
      [] fingerprint_type = "mobile_safari" -> << UaIPhone >>
      [] fingerprint_type = "tablet_chrome" -> << UaAndroidTablet >>
      [] fingerprint_type = "linux_firefox" -> << UaLinuxFirefox >>
      [] OTHER -> << UaEdge >>

\* the major versions random.randint draws for a type: the ends of its range
VersionChoices(fingerprint_type) ==
    IF fingerprint_type = "desktop_safari" THEN {17, 18}
    ELSE IF fingerprint_type = "mobile_safari" THEN {16, 17}
    ELSE {120, 125}

\* _generate_user_agent: template is the index random.choice picked
generate_user_agent(fingerprint_type, template, version) ==
    [ words |-> ua_templates(fingerprint_type)[template], version |-> version ]

\* _extract_version_from_ua: the major version, as a number
extract_version_from_ua(user_agent) ==
    IF "Chrome/" \in user_agent.words THEN user_agent.version
    ELSE IF "Firefox/" \in user_agent.words THEN user_agent.version
    ELSE IF "Safari/" \in user_agent.words /\ "Version/" \in user_agent.words
    THEN user_agent.version
    ELSE IF "Edg/" \in user_agent.words THEN user_agent.version
    ELSE 120

\* _load_hardware_profiles: the GPU vendor of a profile
gpu_vendor(hardware_profile) ==
    CASE hardware_profile = "desktop_high_end" -> "NVIDIA Corporation"
      [] hardware_profile \in {"desktop_mid_end", "desktop_low_end", "laptop"} -> "Intel Inc."
      [] hardware_profile = "tablet" -> "Apple Inc."
      [] OTHER -> "Qualcomm"

\* _select_hardware_profile: the profiles it may return
hardware_profiles(fingerprint_type) ==
    IF fingerprint_type \in {"mobile_chrome", "mobile_safari"}
    THEN {"mobile_high_end", "mobile_mid_end", "mobile_low_end"}
    ELSE IF fingerprint_type = "tablet_chrome" THEN {"tablet"}
    ELSE IF fingerprint_type = "desktop_safari" THEN {"laptop"}
    ELSE {"desktop_high_end", "desktop_mid_end", "desktop_low_end", "laptop"}

\* _select_locale: locale_mapping by device type
locale_mapping(device_type) ==
    CASE device_type = "desktop" -> {"en-US", "en-GB", "de-DE", "fr-FR", "es-ES"}
      [] device_type = "mobile" -> {"en-US", "en-IN", "ja-JP", "en-GB"}
      [] OTHER -> {"en-US", "en-GB", "fr-FR"}

\* _load_locale_data: the timezone of a locale
locale_timezone(locale) ==
    CASE locale = "en-US" -> "America/New_York"
      [] locale = "en-GB" -> "Europe/London"
      [] locale = "en-IN" -> "Asia/Kolkata"
      [] locale = "de-DE" -> "Europe/Berlin"
      [] locale = "fr-FR" -> "Europe/Paris"
      [] locale = "ja-JP" -> "Asia/Tokyo"
      [] OTHER -> "Europe/Madrid"

\* _generate_webgl_renderer: the first renderer of the vendor's list
generate_webgl_renderer(vendor) ==
    CASE vendor = "Google Inc." -> "ANGLE (Google, Vulkan 1.3.0)"
      [] vendor = "Intel Inc." -> "Intel(R) UHD Graphics 620"
      [] vendor = "NVIDIA Corporation" -> "NVIDIA GeForce RTX 3060"
      [] vendor = "AMD" -> "AMD Radeon RX 6700 XT"
      [] vendor = "Mozilla" -> "Mozilla"
      [] vendor = "Apple Inc." -> "Apple GPU"
      [] vendor = "Qualcomm" -> "Adreno 660"
      [] vendor = "ARM" -> "Mali-G78"
      [] OTHER -> "WebKit WebGL"

\* the FingerprintConfig built by generate_fingerprint from the choices of
\* its random draws; the hash is fresh for every identity and is identified
\* with the order of generation
FingerprintConfig(id, fingerprint_type, choice) ==
    LET template == templates(fingerprint_type)
        user_agent == generate_user_agent(fingerprint_type, choice.ua_template,
                                          choice.version)
    IN  [ id |-> id,
          user_agent |-> user_agent,
          browser_name |-> template.browser_name,
          browser_version |-> extract_version_from_ua(user_agent),
          platform |-> choice.platform,
          device_type |-> template.device_type,
          gpu_vendor |-> gpu_vendor(choice.hardware_profile),
          screen_width |-> choice.resolution[1],
          screen_height |-> choice.resolution[2],
          timezone |-> locale_timezone(choice.locale),
          locale |-> choice.locale,
          webgl_renderer |-> generate_webgl_renderer(choice.webgl_vendor),
          fingerprint_hash |-> id ]

\* the draws of generate_fingerprint the model follows: every user-agent
\* template and every platform of the type, and some of the resolutions,
\* hardware profiles, WebGL vendors and locales
SampleResolutions == { <<1920, 1080>>, <<1280, 720>>, <<375, 667>>, <<768, 1024>> }
SampleProfiles == { "desktop_high_end", "desktop_mid_end", "laptop",
                    "mobile_mid_end", "tablet" }
SampleVendors == { "NVIDIA Corporation", "Intel Inc.", "Apple Inc.", "Qualcomm" }
SampleLocales == { "en-US", "en-IN" }

FingerprintChoices(fingerprint_type) ==
    LET template == templates(fingerprint_type)
    IN  [ ua_template : 1..Len(ua_templates(fingerprint_type)),
          version : VersionChoices(fingerprint_type),
          platform : template.common_platforms,
          resolution : template.common_resolutions \cap SampleResolutions,
          hardware_profile : hardware_profiles(fingerprint_type) \cap SampleProfiles,
          webgl_vendor : template.webgl_vendors \cap SampleVendors,
          locale : locale_mapping(template.device_type) \cap SampleLocales ]

\* ua = fingerprint.user_agent.lower(); `word in ua`
lower(word) ==
    CASE word = "Mobile" -> "mobile"
      [] word = "Android" -> "android"
      [] word = "iPhone" -> "iphone"
      [] word = "Windows" -> "windows"
      [] word = "Macintosh" -> "macintosh"
      [] OTHER -> word
InLower(word, user_agent) == \E w \in user_agent.words : lower(w) = word

\* locale.split('-')[-1]
locale_region(locale) ==
    CASE locale \in {"en-US"} -> "US"
      [] locale \in {"en-GB"} -> "GB"
      [] locale = "en-IN" -> "IN"
      [] locale = "de-DE" -> "DE"
      [] locale = "fr-FR" -> "FR"
      [] locale = "ja-JP" -> "JP"
      [] OTHER -> "ES"
\* timezone.startswith(prefix)
timezone_startswith(timezone, prefix) ==
    \/ prefix = "America/" /\ timezone \in {"America/New_York", "America/Chicago"}
    \/ prefix = "Europe/London" /\ timezone = "Europe/London"
\* 'NVIDIA' in webgl_renderer
names_nvidia(webgl_renderer) == webgl_renderer = "NVIDIA GeForce RTX 3060"

\* validate_fingerprint: the issues
fingerprint_issues(fingerprint) ==
    IF fingerprint.device_type = "desktop"
    THEN IF \/ InLower("mobile", fingerprint.user_agent)
            \/ InLower("android", fingerprint.user_agent)
            \/ InLower("iphone", fingerprint.user_agent)
         THEN << "Desktop fingerprint has mobile user agent" >> ELSE << >>
    ELSE IF fingerprint.device_type \in {"mobile", "tablet"}
    THEN IF \/ InLower("windows", fingerprint.user_agent)
            \/ InLower("macintosh", fingerprint.user_agent)
         THEN << "Mobile fingerprint has desktop user agent" >> ELSE << >>
    ELSE << >>

\* validate_fingerprint: the warnings
fingerprint_warnings(fingerprint) ==
    LET screen ==
            IF fingerprint.device_type = "desktop"
            THEN IF fingerprint.screen_width < 1024 \/ fingerprint.screen_height < 768
                 THEN << "Desktop screen resolution seems small" >> ELSE << >>
            ELSE IF fingerprint.device_type = "mobile"
            THEN IF fingerprint.screen_width > 500 \/ fingerprint.screen_height > 1000
                 THEN << "Mobile screen resolution seems large" >> ELSE << >>
            ELSE << >>
        zone ==
            IF /\ locale_region(fingerprint.locale) = "US"
               /\ ~timezone_startswith(fingerprint.timezone, "America/")
            THEN << "US locale with non-US timezone" >>
            ELSE IF /\ locale_region(fingerprint.locale) = "GB"
                    /\ ~timezone_startswith(fingerprint.timezone, "Europe/London")
            THEN << "GB locale with non-UK timezone" >>
            ELSE << >>
        webgl ==
            IF /\ fingerprint.gpu_vendor = "NVIDIA Corporation"
               /\ ~names_nvidia(fingerprint.webgl_renderer)
            THEN << "GPU vendor mismatch with WebGL renderer" >> ELSE << >>
    IN  screen \o zone \o webgl

\* _calculate_fingerprint_score; a browser_version that int() rejects is -1
calculate_fingerprint_score(fingerprint, issues, warnings, history) ==
    LET same_hash_count ==
            Cardinality({ j \in 1..Len(history) : history[j] = fingerprint.fingerprint_hash })
        s1 == 100 - Len(issues) * 20 - Len(warnings) * 5
        s2 == IF same_hash_count = 1 THEN s1 + 10 ELSE s1
        s3 == IF fingerprint.browser_version >= 120 THEN s2 + 5 ELSE s2
    IN  Max(0, Min(100, s3))

\* validate_fingerprint
validate_fingerprint(fingerprint, history) ==
    LET issues == fingerprint_issues(fingerprint)
        warnings == fingerprint_warnings(fingerprint)
    IN  [ valid |-> Len(issues) = 0,
          issues |-> issues,
          warnings |-> warnings,
          score |-> calculate_fingerprint_score(fingerprint, issues, warnings, history) ]

\* FingerprintConfig values a caller builds itself and hands to
\* validate_fingerprint; hash 0 is the hash of no generated identity, hash 1
\* that of the first
ConstructedFingerprints ==
    { [ id |-> 0,
        user_agent |-> [ words |-> w, version |-> 120 ],
        browser_name |-> "Chrome",
        browser_version |-> v,
        platform |-> "Win32",
        device_type |-> d,
        gpu_vendor |-> "NVIDIA Corporation",
        screen_width |-> r[1],
        screen_height |-> r[2],
        timezone |-> z,
        locale |-> l,
        webgl_renderer |-> g,
        fingerprint_hash |-> h ] :
      w \in { UaWindowsChrome, UaAndroidPhone }, v \in { -1, 119, 120 },
      d \in { "desktop", "mobile" }, r \in { <<1920, 1080>>, <<800, 600>> },
      z \in { "America/New_York", "Europe/Paris" }, l \in { "en-US", "en-GB", "fr-FR" },
      g \in { "NVIDIA GeForce RTX 3060", "Intel(R) UHD Graphics 620" }, h \in { 0, 1 } }

\* the caller keeps the first identity generate_fingerprint returns
GenerateHeld ==
    /\ fingerprints_generated = 0
    /\ held = NoIdentity
    /\ LET after == generate_fingerprint(RotState, now)
       IN  /\ current_fingerprint' = after.current
           /\ fingerprint_history' = after.history
           /\ fingerprints_generated' = after.generated
           /\ \E fingerprint_type \in FingerprintTypes :
                \E choice \in FingerprintChoices(fingerprint_type) :
                    held' = FingerprintConfig(after.ret.id, fingerprint_type, choice)
    /\ UNCHANGED <<now, campaignVars, extVars, rot_call, validation, histVars, fnVars>>
    /\ UNCHANGED guiVars

\* the caller builds a FingerprintConfig itself
ConstructFingerprint ==
    /\ held = NoIdentity
    /\ held' \in ConstructedFingerprints
    /\ UNCHANGED <<now, campaignVars, extVars, validation, histVars, fnVars>>
    /\ UNCHANGED guiVars
    /\ UNCHANGED rotVars

\* validation = rotator.validate_fingerprint(fingerprint)
ValidateFingerprint ==
    /\ held # NoIdentity
    /\ validation' = [ done |-> TRUE,
                       result |-> validate_fingerprint(held, fingerprint_history) ]
    /\ UNCHANGED <<now, campaignVars, extVars, held, histVars, fnVars>>
    /\ UNCHANGED guiVars
    /\ UNCHANGED rotVars

NextId ==
    \/ GenerateHeld
    \/ GenerateFingerprint
    \/ ConstructFingerprint
    \/ ValidateFingerprint

SpecId == InitGui /\ [][NextId]_vars

----------------------------------------------------------------------------
(* SpecHist: the session histories of StealthManager and BehaviorAISimulator *)

\* if len(self.session_history) > 100
SessionHistoryCap == 100

\* StealthManager.save_session: the history after it; a session is
\* identified by the order in which it was saved
save_session(history, created) ==
    LastN(Append(history, created + 1), SessionHistoryCap)

SaveSession ==
    /\ sessions_created < MaxSavedSessions
    /\ session_history' = save_session(session_history, sessions_created)
    /\ sessions_created' = sessions_created + 1
    /\ UNCHANGED <<now, campaignVars, extVars, idVars, view_history, fnVars>>
    /\ UNCHANGED guiVars
    /\ UNCHANGED rotVars

\* BehaviorAISimulator.generate_view_session called with a behavior_pattern:
\* the history after it; a ViewSession is identified by the order in which
\* it was generated
generate_view_session(history) == Append(history, Len(history) + 1)

GenerateViewSession ==
    /\ Len(view_history) < MaxViewSessions
    /\ view_history' = generate_view_session(view_history)
    /\ UNCHANGED <<now, campaignVars, extVars, idVars, session_history,
                   sessions_created, fnVars>>
    /\ UNCHANGED guiVars
    /\ UNCHANGED rotVars

NextHist ==
    \/ SaveSession
    \/ GenerateViewSession

SpecHist == InitGui /\ [][NextHist]_vars

----------------------------------------------------------------------------
(* SpecBehavior: the generators of BehaviorAISimulator.  Frequencies are in *)
(* hundredths per minute, device biases and scores in tenths.               *)

\* _load_behavior_models
behavior_models(pattern) ==
    CASE pattern = "casual_browsing" ->
           [ click_frequency |-> <<10, 30>>, scroll_frequency |-> <<200, 500>>,
             pause_frequency |-> <<50, 150>>,
             preferred_times |-> {"afternoon", "evening", "night"},
             content_preferences |-> {"entertainment", "music", "vlogs"},
             device_bias |-> [mobile |-> 6, desktop |-> 4] ]
      [] pattern = "focused_watching" ->
           [ click_frequency |-> <<5, 15>>, scroll_frequency |-> <<50, 200>>,
             pause_frequency |-> <<80, 200>>,
             preferred_times |-> {"morning", "afternoon"},
             content_preferences |-> {"educational", "tutorial", "documentary"},
             device_bias |-> [desktop |-> 7, tablet |-> 3] ]
      [] pattern = "multitasking" ->
           [ click_frequency |-> <<30, 60>>, scroll_frequency |-> <<400, 800>>,
             pause_frequency |-> <<200, 400>>,
             preferred_times |-> {"afternoon", "evening"},
             content_preferences |-> {"entertainment", "background"},
             device_bias |-> [mobile |-> 8, tablet |-> 2] ]
      [] pattern = "research_mode" ->
           [ click_frequency |-> <<20, 40>>, scroll_frequency |-> <<300, 600>>,
             pause_frequency |-> <<150, 300>>,
             preferred_times |-> {"morning", "afternoon"},
             content_preferences |-> {"educational", "review", "comparison"},
             device_bias |-> [desktop |-> 9, tablet |-> 1] ]
      [] OTHER ->
           [ click_frequency |-> <<15, 25>>, scroll_frequency |-> <<100, 300>>,
             pause_frequency |-> <<30, 100>>,
             preferred_times |-> {"evening", "night"},
             content_preferences |-> {"entertainment", "comedy", "music"},
             device_bias |-> [mobile |-> 5, desktop |-> 3, tv |-> 2] ]

\* dict.get(key, default)
Get(dict, key, default) == IF key \in DOMAIN dict THEN dict[key] ELSE default

\* the score of a pattern with the content match left out
pattern_score_no_content(pattern, context) ==
    LET model == behavior_models(pattern)
        time_of_day == Get(context, "time_of_day", "afternoon")
        device_type == Get(context, "device_type", "desktop")
    IN  (IF time_of_day \in model.preferred_times THEN 20 ELSE 0)
        + Get(model.device_bias, device_type, 0) * 2

\* the score select_behavior_pattern gives a pattern, in tenths
pattern_score(pattern, context) ==
    LET model == behavior_models(pattern)
        time_of_day == Get(context, "time_of_day", "afternoon")
        content_type == Get(context, "content_type", "entertainment")
        device_type == Get(context, "device_type", "desktop")
    IN  (IF time_of_day \in model.preferred_times THEN 20 ELSE 0)
        + (IF content_type \in model.content_preferences THEN 30 ELSE 0)
        + Get(model.device_bias, device_type, 0) * 2

\* max(pattern_scores.items(), key=...)[0]: the first pattern, in the order
\* of the dictionary, that no other pattern outscores
max_scoring(context) ==
    LET best(k) == \A j \in 1..Len(BehaviorPatternList) :
                       pattern_score(BehaviorPatternList[j], context)
                           <= pattern_score(BehaviorPatternList[k], context)
        first == CHOOSE k \in 1..Len(BehaviorPatternList) :
                     best(k) /\ \A j \in 1..(k - 1) : ~best(j)
    IN  BehaviorPatternList[first]

\* select_behavior_pattern: the pattern returned; drawn is the outcome of
\* random.choices, used when there is no context (None or an empty dict)
select_behavior_pattern(context, drawn) ==
    IF context # EmptyDict THEN max_scoring(context) ELSE drawn

\* the contexts the model passes
TimesOfDay == {"morning", "afternoon", "evening", "night"}
ContentTypes == {"educational", "entertainment", "music", "review", "gaming"}
DeviceTypes == {"desktop", "mobile", "tablet", "tv"}
Contexts ==
    [ time_of_day : TimesOfDay, content_type : ContentTypes, device_type : DeviceTypes ]
        \cup { [ content_type |-> "educational" ], EmptyDict }

SelectRequests ==
    [ op : {"select_behavior_pattern"}, context : Contexts,
      returned : {0}, out : {"none"}, before : {"none"} ]

\* a call of select_behavior_pattern, with the outcome of random.choices
\* drawn anew; the request keeps what the call before returned
SelectBehaviorPattern ==
    /\ sample.op = "select_behavior_pattern"
    /\ sample.returned < MaxSelections
    /\ \E drawn \in BehaviorPatterns :
       LET selected == select_behavior_pattern(sample.context, drawn)
       IN  /\ pattern_usage' = [pattern_usage EXCEPT ![selected] = @ + 1]
           /\ sample' = [ sample EXCEPT !.out = selected, !.before = sample.out,
                                        !.returned = @ + 1 ]
    /\ UNCHANGED <<now, campaignVars, extVars, idVars, histVars>>
    /\ UNCHANGED guiVars
    /\ UNCHANGED rotVars

\* _load_scroll_patterns: burst_count of a style; an unknown style is
\* served with burst_scroll
scroll_burst_count(pattern_type) ==
    CASE pattern_type = "continuous_scroll" -> <<1, 1>>
      [] pattern_type = "idle_scroll" -> <<1, 3>>
      [] pattern_type = "reading_scroll" -> <<1, 2>>
      [] OTHER -> <<2, 5>>

\* the loop `for burst in range(burst_count)` of generate_scroll_actions;
\* up_at is the burst whose direction is drawn as 'up' (0 for none)
RECURSIVE scroll_bursts(_, _, _, _, _, _)
scroll_bursts(burst, burst_count, scroll_per_burst, remaining_scroll, up_at, actions) ==
    IF burst >= burst_count THEN actions
    ELSE LET burst_scroll == Min(scroll_per_burst, remaining_scroll)
         IN  IF burst_scroll <= 0 THEN actions
             ELSE scroll_bursts(burst + 1, burst_count, scroll_per_burst,
                      remaining_scroll - burst_scroll, up_at,
                      Append(actions, [ direction |-> IF burst + 1 = up_at THEN "up" ELSE "down",
                                        amount |-> burst_scroll ]))

\* generate_scroll_actions, burst_count being the outcome of random.randint
generate_scroll_actions(total_scroll, burst_count, up_at) ==
    scroll_bursts(0, burst_count, total_scroll \div burst_count, total_scroll, up_at, <<>>)

ScrollStyles == {"burst_scroll", "continuous_scroll", "idle_scroll", "reading_scroll",
                 "smooth_scroll"}
TotalScrolls == {0, 1, 3, 120, 1000}

\* burst_count = random.randint(*pattern['burst_count']); up_at is the burst
\* that scrolls up, 0 for none
ScrollRequests ==
    { r \in [ op : {"generate_scroll_actions"}, pattern_type : ScrollStyles,
              total_scroll : TotalScrolls, burst_count : 1..5, up_at : 0..1,
              returned : {0}, out : {<<>>} ] :
        r.burst_count \in scroll_burst_count(r.pattern_type)[1]
                             ..scroll_burst_count(r.pattern_type)[2] }

GenerateScrollActions ==
    /\ sample.op = "generate_scroll_actions"
    /\ sample.returned = 0
    /\ sample' = [ sample EXCEPT !.returned = 1,
                     !.out = generate_scroll_actions(sample.total_scroll,
                                                     sample.burst_count, sample.up_at) ]
    /\ UNCHANGED <<now, campaignVars, extVars, idVars, histVars, pattern_usage>>
    /\ UNCHANGED guiVars
    /\ UNCHANGED rotVars

\* random.uniform(a, b) returns a + (b - a) * random(), between a and b in
\* either order: the model draws one of the two ends
uniform(a, b, draw) == IF draw = "a" THEN a ELSE b

\* the times of the n actions of one kind: all at one end of the range of
\* random.uniform, or alternating between the ends
RECURSIVE timed_actions(_, _, _, _, _, _)
timed_actions(type, n, a, b, spread, actions) ==
    IF n <= 0 THEN actions
    ELSE LET k == Len(actions) + 1
             draw == IF spread = "alternate"
                     THEN (IF k % 2 = 1 THEN "b" ELSE "a") ELSE spread
         IN  timed_actions(type, n - 1, a, b, spread,
                           Append(actions, [ type |-> type, time |-> uniform(a, b, draw) ]))

\* list.sort(key=lambda x: x['time']): a stable sort
RECURSIVE sort_by_time(_)
sort_by_time(actions) ==
    IF Len(actions) <= 1 THEN actions
    ELSE LET n == Len(actions)
             sorted == sort_by_time(SubSeq(actions, 1, n - 1))
             x == actions[n]
             before == Cardinality({ j \in 1..(n - 1) : sorted[j].time <= x.time })
         IN  SubSeq(sorted, 1, before) \o << x >> \o SubSeq(sorted, before + 1, n - 1)

\* int(watch_time * freq / 60), freq in hundredths per minute
action_count(watch_time, freq) == (watch_time * freq) \div 6000

\* _generate_engagement_actions; draws holds the outcomes of its random draws
generate_engagement_actions(behavior_pattern, watch_time, draws) ==
    LET model == behavior_models(behavior_pattern)
        num_clicks == action_count(watch_time, model.click_frequency[draws.freq])
        num_scrolls == action_count(watch_time, model.scroll_frequency[draws.freq])
        num_pauses == action_count(watch_time, model.pause_frequency[draws.freq])
        clicks == timed_actions("click", num_clicks, 10, watch_time - 10, draws.spread, <<>>)
        scrolls == timed_actions("scroll", num_scrolls, 5, watch_time - 5, draws.spread, <<>>)
        pauses == timed_actions("pause", num_pauses, 15, watch_time - 15, draws.spread, <<>>)
        quality == IF draws.quality = "none" THEN <<>>
                   ELSE timed_actions("quality_change", 1, 30, watch_time - 30,
                                      draws.quality, <<>>)
        volume == timed_actions("volume_change", draws.num_volume_changes, 20,
                                watch_time - 20, draws.spread, <<>>)
    IN  sort_by_time(clicks \o scrolls \o pauses \o quality \o volume)

EngagementDraws ==
    [ freq : {1, 2}, spread : {"a", "b", "alternate"}, quality : {"none", "a", "b"},
      num_volume_changes : 0..3 ]
WatchTimeArgs == {20, 45, 120}

EngagementRequests ==
    [ op : {"generate_engagement_actions"}, behavior_pattern : BehaviorPatterns,
      watch_time : WatchTimeArgs, draws : EngagementDraws, returned : {0}, out : {<<>>} ]

GenerateEngagementActions ==
    /\ sample.op = "generate_engagement_actions"
    /\ sample.returned = 0
    /\ sample' = [ sample EXCEPT !.returned = 1,
                     !.out = generate_engagement_actions(sample.behavior_pattern,
                                                         sample.watch_time, sample.draws) ]
    /\ UNCHANGED <<now, campaignVars, extVars, idVars, histVars, pattern_usage>>
    /\ UNCHANGED guiVars
    /\ UNCHANGED rotVars

\* generate_mouse_trajectory.  Coordinates on the curve are in thousandths
\* of a pixel, every interpolation being rounded down to a thousandth; at
\* t = 0 and t = 1 the interpolation is exact, as it is in floating point.
\* The timestamps and durations of the MouseActions do not enter the
\* coordinates and are left out.
Milli == 1000

\* int(x) of a fraction: truncation toward zero
Trunc(num, den) == IF num >= 0 THEN num \div den ELSE -((-num) \div den)

\* num_points = max(10, min(50, int(distance / 10))), distance being the
\* square root of squared
num_points(squared) ==
    LET capped == IF squared >= 100 * 50 * 50 THEN 50
                  ELSE CHOOSE k \in 0..49 :
                           100 * k * k <= squared /\ squared < 100 * (k + 1) * (k + 1)
    IN  Max(10, capped)

\* the control points between start and end, for one coordinate; draw holds
\* the outcomes of random.uniform and random.randint
control_points(pattern_type, start, d, draw) ==
    CASE pattern_type = "straight" -> << Milli * start + 500 * d >>
      [] pattern_type = "exploratory" ->
           << Milli * start + 300 * d + Milli * draw.offset,
              Milli * start + 700 * d + Milli * draw.offset >>
      [] pattern_type = "hesitant" ->
           [ i \in 1..3 |-> Milli * start + 250 * i * d + Milli * draw.offset ]
      [] OTHER -> << Milli * start + 100 * draw.tenths * d >>

\* (1-t) * p + t * q at t = i / n1
interpolate(p, q, i, n1) == ((n1 - i) * p + i * q) \div n1

\* the point at t = i / n1 of the Bezier curve over the points (the
\* quadratic and the cubic formula, and de Casteljau's algorithm)
RECURSIVE bezier(_, _, _)
bezier(points, i, n1) ==
    IF Len(points) = 1 THEN points[1]
    ELSE bezier([ k \in 1..(Len(points) - 1) |->
                    interpolate(points[k], points[k + 1], i, n1) ], i, n1)

\* the micro-movement added to the i-th of n points: jitter names the point
\* for which random.random() > 0.7 and the outcome of random.randint(-2, 2)
micro_movement(jitter, i, n) ==
    IF \/ jitter.at = "first" /\ i = 0
       \/ jitter.at = "middle" /\ i = n \div 2
       \/ jitter.at = "last" /\ i = n - 1
    THEN jitter.by ELSE 0

\* generate_mouse_trajectory: the coordinates of the actions
generate_mouse_trajectory(start, end, pattern_type, draw, jitter) ==
    LET dx == end[1] - start[1]
        dy == end[2] - start[2]
        n == num_points(dx * dx + dy * dy)
        xs == << Milli * start[1] >> \o control_points(pattern_type, start[1], dx, draw)
                 \o << Milli * end[1] >>
        ys == << Milli * start[2] >> \o control_points(pattern_type, start[2], dy, draw)
                 \o << Milli * end[2] >>
    IN  [ k \in 1..n |->
            [ x |-> Trunc(bezier(xs, k - 1, n - 1)
                            + Milli * micro_movement(jitter, k - 1, n), Milli),
              y |-> Trunc(bezier(ys, k - 1, n - 1)
                            + Milli * micro_movement(jitter, k - 1, n), Milli) ] ]

MouseStyles == {"straight", "exploratory", "hesitant", "rapid", "natural", "zigzag"}
MouseMoves ==
    { << <<100, 100>>, <<500, 300>> >>, << <<0, 0>>, <<30, 40>> >>,
      << <<640, 360>>, <<640, 360>> >>, << <<0, 0>>, <<1000, 0>> >>,
      << <<800, 600>>, <<200, 100>> >> }
MouseDraws == [ tenths : {3, 7}, offset : {-30, 30} ]
Jitters == { [ at |-> "none", by |-> 0 ] } \cup [ at : {"first", "middle", "last"}, by : {-2, 2} ]

MouseRequests ==
    [ op : {"generate_mouse_trajectory"}, move : MouseMoves, pattern_type : MouseStyles,
      draw : MouseDraws, jitter : Jitters, returned : {0}, out : {<<>>} ]

GenerateMouseTrajectory ==
    /\ sample.op = "generate_mouse_trajectory"
    /\ sample.returned = 0
    /\ sample' = [ sample EXCEPT !.returned = 1,
                     !.out = generate_mouse_trajectory(sample.move[1], sample.move[2],
                                 sample.pattern_type, sample.draw, sample.jitter) ]
    /\ UNCHANGED <<now, campaignVars, extVars, idVars, histVars, pattern_usage>>
    /\ UNCHANGED guiVars
    /\ UNCHANGED rotVars

\* a BehaviorAISimulator and one request to one of its generators
InitBehavior ==
    /\ InitCommon
    /\ orchestrator = FALSE
    /\ pc = [c \in Campaigns |-> "none"]
    /\ sample \in SelectRequests \cup MouseRequests \cup ScrollRequests
                     \cup EngagementRequests

NextBehavior ==
    \/ SelectBehaviorPattern
    \/ GenerateMouseTrajectory
    \/ GenerateScrollActions
    \/ GenerateEngagementActions

SpecBehavior == InitBehavior /\ [][NextBehavior]_vars

(* SpecWatch: generate_human_watch_pattern of StealthManager.  Times and    *)
(* durations are in tenths of a second, retention in percent, frequencies   *)
(* in tenths.                                                               *)

\* _load_real_patterns: the retention curves; .get(video_type, ...) falls
\* back to the entertainment curve
retention_curves(video_type) ==
    CASE video_type = "educational" ->
           [ curve |-> <<100, 95, 92, 88, 85, 82, 78, 75, 70, 65, 60>>,
             drop_points |-> <<3, 7>>, pause_frequency |-> 4 ]
      [] video_type = "tutorial" ->
           [ curve |-> <<100, 98, 95, 93, 90, 88, 85, 83, 80, 78, 75>>,
             drop_points |-> <<4, 8>>, pause_frequency |-> 6 ]
      [] video_type = "music" ->
           [ curve |-> <<100, 90, 85, 83, 82, 81, 80, 79, 78, 77, 76>>,
             drop_points |-> <<>>, pause_frequency |-> 1 ]
      [] OTHER ->
           [ curve |-> <<100, 85, 75, 70, 65, 60, 55, 50, 45, 40, 35>>,
             drop_points |-> <<1, 2, 5>>, pause_frequency |-> 2 ]

\* the individual variation of segment i: an end of the range of its
\* random.uniform
variation(i, spread) ==
    LET draw == IF spread = "alternate" THEN (IF i % 2 = 0 THEN "a" ELSE "b") ELSE spread
    IN  IF i = 0 THEN uniform(-2, 2, draw)
        ELSE IF i < 3 THEN uniform(-5, 5, draw)
        ELSE uniform(-10, 5, draw)

\* scaled_retention: retention = max(5, min(100, base_value + variation))
scaled_retention(segments, base_curve, spread) ==
    [ k \in 1..segments |->
        LET i == k - 1
            base_idx == Min(i, Len(base_curve) - 1)
            base_value == base_curve[base_idx + 1]
        IN  Max(5, Min(100, base_value + variation(i, spread))) ]

\* n events of one kind, drawn alike
repeated(n, event) == [ k \in 1..n |-> event ]

\* what an event takes from the watch time of its segment: the duration of
\* a pause, abs(amount) * 0.1 seconds for a seek, nothing for other events
event_cost(event) ==
    IF event.type = "pause" THEN event.duration
    ELSE IF event.type = "seek"
         THEN (IF event.amount < 0 THEN -event.amount ELSE event.amount)
    ELSE 0

RECURSIVE events_cost(_, _, _)
\* the cost of the events with segment_start <= time < segment_end
events_cost(events, segment_start, segment_end) ==
    IF events = <<>> THEN 0
    ELSE (IF segment_start <= Head(events).time /\ Head(events).time < segment_end
          THEN event_cost(Head(events)) ELSE 0)
         + events_cost(Tail(events), segment_start, segment_end)

RECURSIVE watched(_, _, _, _)
\* the loop over the segments of _calculate_actual_watch_time: total_watch
\* after segments i, i + 1, ...; base[i + 1] is the base watch time of segment i
watched(i, base, segment_length, events) ==
    IF i >= Len(base) THEN 0
    ELSE LET segment_start == i * segment_length
             segment_end == (i + 1) * segment_length
             segment_watch == base[i + 1] - events_cost(events, segment_start, segment_end)
         IN  Max(0, segment_watch) + watched(i + 1, base, segment_length, events)

\* the watch time with every segment counted in full, whatever its retention
calculate_actual_watch_time_full(video_length, retention_curve, events, noise) ==
    LET segment_length == (video_length * 10) \div Len(retention_curve)
        base == [ k \in 1..Len(retention_curve) |-> segment_length ]
        total_watch == watched(0, base, segment_length, events)
    IN  Max(30, Trunc(total_watch * (100 + noise), 1000))

\* _calculate_actual_watch_time, in whole seconds; noise is the outcome of
\* random.uniform(-0.05, 0.05) in hundredths.  The video lengths drawn make
\* segment_length and the base watch times whole tenths.
calculate_actual_watch_time(video_length, retention_curve, events, noise) ==
    LET segment_length == (video_length * 10) \div Len(retention_curve)
        base == [ k \in 1..Len(retention_curve) |->
                    (segment_length * retention_curve[k]) \div 100 ]
        total_watch == watched(0, base, segment_length, events)
    IN  Max(30, Trunc(total_watch * (100 + noise), 1000))

\* round(actual_watch / video_length * 100, 1), in tenths of a percent
completion_rate(actual_watch, video_length) ==
    (2000 * actual_watch + video_length) \div (2 * video_length)

\* generate_human_watch_pattern; choice is the outcome of random.choice when
\* no video type is given
generate_human_watch_pattern(video_length, video_type_arg, d) ==
    LET video_type == IF video_type_arg = "" THEN d.choice ELSE video_type_arg
        pattern_data == retention_curves(video_type)
        base_curve == pattern_data.curve
        drop_points == pattern_data.drop_points
        few == Min(video_length \div 30, Len(base_curve))
        segments == IF few < 2 THEN 2 ELSE few
        retention == scaled_retention(segments, base_curve, d.spread)
        drop_events == IF d.drop = 0 THEN <<>>
                       ELSE [ k \in 1..Len(drop_points) |->
                                [ time |-> 10 * Min(video_length - 10, drop_points[k] * 30),
                                  amount |-> d.drop, type |-> "drop_off" ] ]
        num_pauses == Max(0, Min(5, (video_length * pattern_data.pause_frequency) \div 1200))
        pauses == repeated(num_pauses,
                    [ time |-> uniform(300, 10 * (video_length - 60), d.pause_time),
                      type |-> "pause", duration |-> d.pause_duration ])
        seeks == repeated(d.num_seeks,
                    [ time |-> uniform(600, 10 * (video_length - 30), d.seek_time),
                      type |-> "seek", amount |-> d.seek_amount ])
        skips == repeated(d.num_skips,
                    [ time |-> uniform(300, 10 * (video_length - 60), d.seek_time),
                      type |-> "seek", amount |-> d.skip_amount ])
        quality == IF d.quality
                   THEN << [ time |-> uniform(450, 10 * (video_length - 45), d.pause_time),
                             type |-> "quality_change" ] >>
                   ELSE <<>>
        volume == repeated(d.num_volume_changes,
                    [ time |-> uniform(200, 10 * (video_length - 20), d.seek_time),
                      type |-> "volume_change" ])
        events == sort_by_time(pauses \o seeks \o skips \o quality \o volume)
        actual_watch == calculate_actual_watch_time(video_length, retention, events, d.noise)
    IN  [ video_type |-> video_type,
          retention_curve |-> retention,
          segment_length |-> (video_length * 10) \div segments,
          drop_events |-> drop_events,
          events |-> events,
          total_watch_time |-> actual_watch,
          completion_rate |-> completion_rate(actual_watch, video_length) ]

\* the calls the model makes and the outcomes of their random draws: the
\* ends of the ranges
VideoLengths == {300, 60}
VideoTypes == {"tutorial", ""}
WatchDraws ==
    [ choice : {"music"}, spread : {"a", "b", "alternate"}, drop : {0, 20, 60},
      pause_time : {"a", "b"}, pause_duration : {20, 150},
      num_seeks : {0, 1, 3}, seek_time : {"a", "b"}, seek_amount : {-45, -10},
      num_skips : {0, 2}, skip_amount : {10, 30},
      quality : BOOLEAN, num_volume_changes : {0, 1}, noise : {-5, 0, 5} ]

WatchRequests ==
    [ op : {"generate_human_watch_pattern"}, video_length : VideoLengths,
      video_type : VideoTypes, draws : WatchDraws, returned : {0}, out : {<<>>} ]

GenerateHumanWatchPattern ==
    /\ sample.op = "generate_human_watch_pattern"
    /\ sample.returned = 0
    /\ sample' = [ sample EXCEPT !.returned = 1,
                     !.out = generate_human_watch_pattern(sample.video_length,
                                                          sample.video_type, sample.draws) ]
    /\ UNCHANGED <<now, campaignVars, extVars, idVars, histVars, pattern_usage>>
    /\ UNCHANGED guiVars
    /\ UNCHANGED rotVars

\* a StealthManager and one request for a watch pattern
InitWatch ==
    /\ InitCommon
    /\ orchestrator = FALSE
    /\ pc = [c \in Campaigns |-> "none"]
    /\ sample \in WatchRequests

NextWatch == GenerateHumanWatchPattern

SpecWatch == InitWatch /\ [][NextWatch]_vars

(* SpecPlan: the planning functions of SessionOrchestrator.  Risks are in   *)
(* hundred-thousandths, durations in DurationScale-ths of a second.         *)

RiskScale == 100000

\* base_risk of _assess_campaign_risk
base_risk(priority) ==
    IF priority = "low" THEN 10000
    ELSE IF priority = "medium" THEN 30000
    ELSE IF priority = "high" THEN 60000
    ELSE 80000

\* strategies[:5]
FirstN(list, n) == SubSeq(list, 1, Min(n, Len(list)))

\* _get_mitigation_strategies
get_mitigation_strategies(priority, risk_level) ==
    FirstN( (IF risk_level * 10 > 7 * RiskScale
             THEN << "Consider reducing number of sessions",
                     "Increase time between sessions",
                     "Use maximum stealth settings" >>
             ELSE <<>>)
            \o (IF risk_level * 10 > 5 * RiskScale
                THEN << "Rotate fingerprints between sessions",
                        "Use residential proxies",
                        "Vary behavior patterns significantly" >>
                ELSE <<>>)
            \o (IF priority # "high"
                THEN << "Consider upgrading to HIGH priority for better stealth" >>
                ELSE <<>>)
            \o << "Monitor session success rates closely",
                  "Have fallback configurations ready" >>, 5)

\* _assess_campaign_risk; every product is a whole number of
\* hundred-thousandths
assess_campaign_risk(num_sessions, priority, content_type) ==
    LET by_sessions == IF num_sessions > 10 THEN (base_risk(priority) * 15) \div 10
                       ELSE IF num_sessions > 5 THEN (base_risk(priority) * 12) \div 10
                       ELSE base_risk(priority)
        risk_level == IF content_type \in {"educational", "documentary"}
                      THEN (by_sessions * 8) \div 10
                      ELSE IF content_type = "entertainment"
                      THEN (by_sessions * 11) \div 10
                      ELSE by_sessions
    IN  [ overall_risk |-> Min((95 * RiskScale) \div 100, risk_level),
          detection_risk |-> (risk_level * 8) \div 10,
          technical_risk |-> (risk_level * 4) \div 10,
          timing_risk |-> (risk_level * 6) \div 10,
          behavioral_risk |-> (risk_level * 7) \div 10,
          network_risk |-> (risk_level * 5) \div 10,
          mitigation_strategies |-> get_mitigation_strategies(priority, risk_level) ]

\* video_types of _analyze_video
AnalysedContentTypes ==
    {"educational", "entertainment", "tutorial", "music", "documentary"}

\* session counts on both sides of the thresholds 5 and 10
RiskSessionCounts == {1, 5, 6, 10, 11, 20}

RiskRequests ==
    [ op : {"assess_campaign_risk"}, num_sessions : RiskSessionCounts,
      priority : Priorities, content_type : AnalysedContentTypes,
      returned : {0}, out : {<<>>} ]

AssessCampaignRisk ==
    /\ sample.op = "assess_campaign_risk"
    /\ sample.returned = 0
    /\ sample' = [ sample EXCEPT !.returned = 1,
                     !.out = assess_campaign_risk(sample.num_sessions, sample.priority,
                                                  sample.content_type) ]
    /\ UNCHANGED <<now, campaignVars, extVars, idVars, histVars, pattern_usage>>
    /\ UNCHANGED guiVars
    /\ UNCHANGED rotVars

\* the bounds of session_duration = random.uniform(...) of
\* _create_session_schedule, in seconds
session_duration_range(priority) ==
    IF priority = "high" THEN <<300, 600>>
    ELSE IF priority = "medium" THEN <<240, 480>>
    ELSE IF priority = "low" THEN <<180, 360>>
    ELSE <<120, 240>>

\* 5^4: four products with 0.8 or 1.2 stay whole
DurationScale == 625

RECURSIVE estimated_durations(_, _, _, _, _)
\* the estimated_duration of the entries i + 1, i + 2, ...: the loop ends
\* with session_duration *= random.uniform(0.8, 1.2), factors[i + 1] being
\* the outcome in hundredths
estimated_durations(i, num_sessions, session_duration, factors, durations) ==
    IF i >= num_sessions THEN durations
    ELSE estimated_durations(i + 1, num_sessions,
                             (session_duration * factors[i + 1]) \div 100, factors,
                             Append(durations, session_duration))

\* _create_session_schedule with the estimated_duration of every entry; the
\* viewer profile, the stealth level and the goals of an entry are left out
create_session_schedule_timed(num_sessions, priority, t0, delays, draw, factors) ==
    LET starts == create_session_schedule(num_sessions, priority, t0, delays)
        range == session_duration_range(priority)
        session_duration == DurationScale * uniform(range[1], range[2], draw)
        durations == estimated_durations(0, num_sessions, session_duration, factors, <<>>)
    IN  [ k \in 1..num_sessions |->
            [ session_number |-> starts[k].session_number,
              scheduled_start |-> starts[k].scheduled_start,
              estimated_duration |-> durations[k] ] ]

\* largest num_sessions of a schedule in SpecPlan
MaxPlanSessions == 4

ScheduleRequests ==
    UNION { [ op : {"create_session_schedule"}, num_sessions : {n}, priority : {p},
              delays : DelayChoices(n, p), draw : {"a", "b"},
              factors : [1..n -> {80, 100, 120}], returned : {0}, out : {<<>>} ] :
            n \in 1..MaxPlanSessions, p \in Priorities }

CreateSessionSchedule ==
    /\ sample.op = "create_session_schedule"
    /\ sample.returned = 0
    /\ sample' = [ sample EXCEPT !.returned = 1,
                     !.out = create_session_schedule_timed(sample.num_sessions,
                                 sample.priority, now, sample.delays, sample.draw,
                                 sample.factors) ]
    /\ UNCHANGED <<now, campaignVars, extVars, idVars, histVars, pattern_usage>>
    /\ UNCHANGED guiVars
    /\ UNCHANGED rotVars

\* a SessionOrchestrator and one request to one of its planning functions
InitPlan ==
    /\ InitCommon
    /\ orchestrator = FALSE
    /\ pc = [c \in Campaigns |-> "none"]
    /\ sample \in RiskRequests \cup ScheduleRequests

NextPlan ==
    \/ AssessCampaignRisk
    \/ CreateSessionSchedule

SpecPlan == InitPlan /\ [][NextPlan]_vars

(* SpecProxy: ResidentialProxyManager.  A server address is a number, a     *)
(* success rate is in hundredths.                                           *)

\* the proxies of a pool the model generates at a time (num_proxies)
NumProxies == 2
\* the server addresses the generators draw from
Servers == 1..2
\* the calls of get_proxy, blacklist_proxy and rotate_proxies the model follows
MaxRequests == 2
MaxBlacklisted == 1
MaxRotations == 1

\* recent_threshold = time.time() - 3600
RecentWindow == 3600

\* Proxy(server=..., latency=random.randint(20, 100),
\* success_rate=random.uniform(0.9, 1.0), last_used=0.0, usage_count=0,
\* blacklisted=False)
Proxy(server, latency, success_rate) ==
    [ server |-> server, latency |-> latency, success_rate |-> success_rate,
      last_used |-> 0, usage_count |-> 0, blacklisted |-> FALSE ]

\* the pools generate_simulated_proxies, load_paid_proxies or
\* load_free_proxies may append: every server is drawn on its own, so two
\* proxies of a pool may have the same server
GeneratedPools ==
    [ 1..NumProxies -> { Proxy(s, l, r) : s \in Servers, l \in {20, 100}, r \in {90} } ]

\* ResidentialProxyManager.__init__
ResidentialProxyManager(use_proxy, proxy_service, proxy_selection, running_loop) ==
    [ use_proxy |-> use_proxy, proxy_service |-> proxy_service,
      proxy_selection |-> proxy_selection,
      proxies |-> <<>>, blacklist |-> <<>>, rotation_index |-> 0,
      total_requests |-> 0, failed_requests |-> 0,
      initialize_proxies |-> IF use_proxy
                             THEN (IF running_loop THEN "scheduled" ELSE "raised")
                             ELSE "none" ]

\* [p for p in filtered if not p.blacklisted], as positions in self.proxies
not_blacklisted(proxies) ==
    LET S == { k \in 1..Len(proxies) : ~proxies[k].blacklisted }
    IN  [ i \in 1..Cardinality(S) |->
            CHOOSE k \in S : Cardinality({ j \in S : j < k }) = i - 1 ]

\* min(filtered, key=...): the first of the smallest; max is min of the
\* negated key
first_min(filtered, key) ==
    filtered[CHOOSE i \in 1..Len(filtered) :
                /\ \A j \in 1..Len(filtered) : key[filtered[i]] <= key[filtered[j]]
                /\ \A j \in 1..(i - 1) : key[filtered[j]] > key[filtered[i]]]

\* get_proxy() called without country and proxy_type, as
\* get_proxy_for_playwright calls it: the manager after the call and the
\* position of the proxy returned, 0 for None; drawn is the outcome of
\* random.choice
get_proxy(pm, t, drawn) ==
    IF ~pm.use_proxy \/ pm.proxies = <<>> THEN [ pm |-> pm, proxy |-> 0 ]
    ELSE LET filtered == not_blacklisted(pm.proxies)
         IN  IF filtered = <<>> THEN [ pm |-> pm, proxy |-> 0 ]
             ELSE
             LET strategy == pm.proxy_selection
                 latency == [ k \in 1..Len(pm.proxies) |-> pm.proxies[k].latency ]
                 neg_success_rate == [ k \in 1..Len(pm.proxies) |-> -pm.proxies[k].success_rate ]
                 usage_count == [ k \in 1..Len(pm.proxies) |-> pm.proxies[k].usage_count ]
                 proxy == CASE strategy = "round_robin" ->
                                 filtered[(pm.rotation_index % Len(filtered)) + 1]
                            [] strategy = "best_latency" -> first_min(filtered, latency)
                            [] strategy = "best_success_rate" ->
                                 first_min(filtered, neg_success_rate)
                            [] strategy = "least_used" -> first_min(filtered, usage_count)
                            [] OTHER -> filtered[(drawn % Len(filtered)) + 1]
             IN  [ pm |-> [ pm EXCEPT
                              !.rotation_index = IF strategy = "round_robin" THEN @ + 1 ELSE @,
                              !.proxies[proxy].usage_count = @ + 1,
                              !.proxies[proxy].last_used = t,
                              !.total_requests = @ + 1 ],
                   proxy |-> proxy ]

\* blacklist_proxy: the first proxy with the server is marked (the loop
\* breaks), and the server is appended to self.blacklist
blacklist_proxy(pm, proxy_server) ==
    LET S == { k \in 1..Len(pm.proxies) : pm.proxies[k].server = proxy_server }
        marked == IF S = {} THEN pm.proxies
                  ELSE LET first == CHOOSE k \in S : \A j \in S : k <= j
                       IN  [ pm.proxies EXCEPT ![first].blacklisted = TRUE ]
    IN  [ pm EXCEPT !.proxies = marked,
                    !.blacklist = Append(@, proxy_server),
                    !.failed_requests = @ + 1 ]

\* [p for p in self.proxies if p.last_used > recent_threshold]
RECURSIVE recently_used(_, _)
recently_used(proxies, recent_threshold) ==
    IF proxies = <<>> THEN <<>>
    ELSE (IF Head(proxies).last_used > recent_threshold THEN << Head(proxies) >> ELSE <<>>)
         \o recently_used(Tail(proxies), recent_threshold)

\* rotate_proxies: the recently used proxies are kept and a generated pool
\* is appended
rotate_proxies(pm, t, pool) ==
    [ pm EXCEPT !.proxies = recently_used(pm.proxies, t - RecentWindow) \o pool ]

ProxySelections ==
    {"round_robin", "random", "best_latency", "best_success_rate", "least_used", "weighted"}
ProxyServices == {"free", "paid", "simulated"}

\* a manager is constructed with use_proxy and its pool is initialised
ConstructProxyManager ==
    /\ proxy_manager = NoProxyManager
    /\ bot = NoBot
    /\ sample = NoSample
    /\ \E proxy_selection \in ProxySelections, pool \in GeneratedPools :
         proxy_manager' =
            [ ResidentialProxyManager(TRUE, "simulated", proxy_selection, TRUE)
                EXCEPT !.proxies = pool, !.initialize_proxies = "done" ]
    /\ UNCHANGED <<now, campaignVars, idVars, histVars, fnVars, bot>>
    /\ UNCHANGED guiVars
    /\ UNCHANGED rotVars

\* the manager was constructed in this specification
ProxyManagerReady ==
    /\ bot = NoBot
    /\ proxy_manager.use_proxy
    /\ proxy_manager.initialize_proxies = "done"

GetProxy ==
    /\ ProxyManagerReady
    /\ proxy_manager.total_requests < MaxRequests
    /\ \E drawn \in 0..(NumProxies - 1) :
         LET got == get_proxy(proxy_manager, now, drawn)
         IN  /\ proxy_manager' = got.pm
             /\ sample' = [ op |-> "get_proxy",
                            out |-> IF got.proxy = 0 THEN 0
                                    ELSE proxy_manager.proxies[got.proxy].server ]
    /\ UNCHANGED <<now, campaignVars, idVars, histVars, pattern_usage, bot>>
    /\ UNCHANGED guiVars
    /\ UNCHANGED rotVars

BlacklistProxy ==
    /\ ProxyManagerReady
    /\ Len(proxy_manager.blacklist) < MaxBlacklisted
    /\ \E proxy_server \in Servers :
         /\ proxy_manager' = blacklist_proxy(proxy_manager, proxy_server)
         /\ sample' = [ op |-> "blacklist_proxy", out |-> proxy_server ]
    /\ UNCHANGED <<now, campaignVars, idVars, histVars, pattern_usage, bot>>
    /\ UNCHANGED guiVars
    /\ UNCHANGED rotVars

\* rotate_proxies; rotations are counted by the proxies the pool has grown by
RotateProxies ==
    /\ ProxyManagerReady
    /\ Len(proxy_manager.proxies) <= NumProxies * MaxRotations
    /\ \E pool \in GeneratedPools :
         proxy_manager' = rotate_proxies(proxy_manager, now, pool)
    /\ sample' = [ op |-> "rotate_proxies", out |-> 0 ]
    /\ UNCHANGED <<now, campaignVars, idVars, histVars, pattern_usage, bot>>
    /\ UNCHANGED guiVars
    /\ UNCHANGED rotVars

\* more than an hour passes between two calls
HourPasses ==
    /\ ProxyManagerReady
    /\ now + RecentWindow + 1 <= StartTime + MaxElapsed
    /\ now' = now + RecentWindow + 1
    /\ UNCHANGED <<campaignVars, idVars, histVars, fnVars, extVars>>
    /\ UNCHANGED guiVars
    /\ UNCHANGED rotVars

NextProxy ==
    \/ ConstructProxyManager
    \/ GetProxy
    \/ BlacklistProxy
    \/ RotateProxies
    \/ HourPasses

SpecProxy == InitGui /\ [][NextProxy]_vars

(* SpecBot: YouTubeWatchTimeBotAdvanced.run_advanced_session, one step per  *)
(* await, and the initialisation task the proxy manager's constructor       *)
(* starts.  A browser is the number of the session that launched it.        *)

\* the calls of run_advanced_session the model follows
MaxBotSessions == 2

\* what the steps of a session leave alone
BotFrame ==
    /\ UNCHANGED <<now, pc, plan, cd, loc, wake, calls, active_campaigns,
                   completed_campaigns, campaign_history, metrics>>
    /\ UNCHANGED <<idVars, fnVars, view_history>>
    /\ UNCHANGED guiVars
    /\ UNCHANGED rotVars

\* YouTubeWatchTimeBotAdvanced.__init__: the proxy manager is constructed
\* with the use_proxy of the configuration; asyncio.create_task raises
\* RuntimeError when no event loop is running
ConstructBot ==
    /\ bot = NoBot
    /\ proxy_manager = NoProxyManager
    /\ sample = NoSample
    /\ \E use_proxy \in BOOLEAN, proxy_service \in ProxyServices,
          proxy_selection \in {"round_robin", "random"}, running_loop \in BOOLEAN :
         LET pm == ResidentialProxyManager(use_proxy, proxy_service,
                                           proxy_selection, running_loop)
         IN  /\ proxy_manager' = pm
             /\ bot' = [ NoBot EXCEPT
                           !.pc = IF pm.initialize_proxies = "raised"
                                  THEN "raised" ELSE "idle" ]
    /\ UNCHANGED <<stats, histVars>>
    /\ BotFrame

\* the coroutine that called the constructor is suspended, so that the event
\* loop runs other tasks
Suspended ==
    bot.pc \in {"idle", "returned", "start", "launch", "new_context", "inject",
                "new_page", "browsing", "watching", "ending", "close"}

\* initialize_proxies up to its first suspension: load_paid_proxies and
\* generate_simulated_proxies never suspend, load_free_proxies awaits the
\* proxy sources
InitializeProxies ==
    /\ proxy_manager.initialize_proxies = "scheduled"
    /\ Suspended
    /\ IF proxy_manager.proxy_service = "free"
       THEN proxy_manager' = [ proxy_manager EXCEPT !.initialize_proxies = "fetching" ]
       ELSE \E pool \in GeneratedPools :
              proxy_manager' = [ proxy_manager EXCEPT !.proxies = pool,
                                                      !.initialize_proxies = "done" ]
    /\ UNCHANGED <<bot, stats, histVars>>
    /\ BotFrame

\* load_free_proxies: the sources have answered or failed, the proxies found
\* are appended and test_proxies begins
FreeProxiesFetched ==
    /\ proxy_manager.initialize_proxies = "fetching"
    /\ Suspended
    /\ \E pool \in GeneratedPools \cup {<<>>} :
         proxy_manager' = [ proxy_manager EXCEPT !.proxies = @ \o pool,
                                                 !.initialize_proxies = "testing" ]
    /\ UNCHANGED <<bot, stats, histVars>>
    /\ BotFrame

\* test_proxies: the proxies that failed are marked, and removed when some
\* proxy is valid
FreeProxiesTested ==
    /\ proxy_manager.initialize_proxies = "testing"
    /\ Suspended
    /\ \E failed \in SUBSET (1..Len(proxy_manager.proxies)) :
         LET marked == [ k \in 1..Len(proxy_manager.proxies) |->
                           [ proxy_manager.proxies[k] EXCEPT
                               !.blacklisted = @ \/ k \in failed ] ]
             valid_proxies == (1..Len(marked)) \ failed
         IN  proxy_manager' =
               [ proxy_manager EXCEPT
                   !.proxies = IF valid_proxies # {}
                               THEN [ i \in 1..Len(not_blacklisted(marked)) |->
                                        marked[not_blacklisted(marked)[i]] ]
                               ELSE marked,
                   !.initialize_proxies = "done" ]
    /\ UNCHANGED <<bot, stats, histVars>>
    /\ BotFrame

\* run_advanced_session up to await async_playwright().start()
BeginSession ==
    /\ bot.pc \in {"idle", "returned"}
    /\ bot.sessions < MaxBotSessions
    /\ bot' = [ bot EXCEPT !.pc = "start", !.sessions = @ + 1, !.launched = {},
                           !.launching = 0, !.proxy_config = "unset", !.error = None ]
    /\ UNCHANGED <<proxy_manager, stats, histVars>>
    /\ BotFrame

\* except Exception: the statistics are updated and self.browser is closed
\* if it is set
SessionFailed(error) ==
    /\ bot' = [ bot EXCEPT !.pc = "returned", !.error = error,
                           !.open = IF bot.browser # 0 THEN @ \ {bot.browser} ELSE @ ]
    /\ stats' = bot_stats_after(stats, [ success |-> FALSE ])
    /\ UNCHANGED histVars

\* a step that completes or raises
Step(from, to, error) ==
    /\ bot.pc = from
    /\ \/ /\ bot' = [ bot EXCEPT !.pc = to ]
          /\ UNCHANGED <<stats, histVars>>
       \/ SessionFailed(error)
    /\ UNCHANGED proxy_manager
    /\ BotFrame

\* create_stealth_context: playwright has started, the proxy configuration
\* is requested; a task created before has run by now
PlaywrightStarted ==
    /\ bot.pc = "start"
    /\ proxy_manager.initialize_proxies # "scheduled"
    /\ \/ \E drawn \in 0..(NumProxies - 1) :
            LET got == IF proxy_manager.use_proxy
                       THEN get_proxy(proxy_manager, now, drawn)
                       ELSE [ pm |-> proxy_manager, proxy |-> 0 ]
            IN  /\ proxy_manager' = got.pm
                /\ bot' = [ bot EXCEPT
                              !.pc = "launch",
                              !.proxy_config =
                                  IF got.proxy = 0 THEN 0
                                  ELSE proxy_manager.proxies[got.proxy].server ]
                /\ UNCHANGED <<stats, histVars>>
       \/ /\ SessionFailed("start")
          /\ UNCHANGED proxy_manager
    /\ BotFrame

\* browser = await playwright.<browser_type>.launch(...)
BrowserLaunched ==
    /\ bot.pc = "launch"
    /\ \/ /\ bot' = [ bot EXCEPT !.pc = "new_context",
                                 !.launching = bot.sessions,
                                 !.open = @ \cup {bot.sessions},
                                 !.launched = @ \cup {bot.sessions} ]
          /\ UNCHANGED <<stats, histVars>>
       \/ SessionFailed("launch")
    /\ UNCHANGED proxy_manager
    /\ BotFrame

\* context = await browser.new_context(**context_options)
ContextCreated == Step("new_context", "inject", "new_context")

\* await self._inject_stealth_scripts(context, fingerprint), and then
\* self.browser = browser
ScriptsInjected ==
    /\ bot.pc = "inject"
    /\ \/ /\ bot' = [ bot EXCEPT !.pc = "new_page", !.browser = bot.launching ]
          /\ UNCHANGED <<stats, histVars>>
       \/ SessionFailed("inject")
    /\ UNCHANGED proxy_manager
    /\ BotFrame

\* page = await context.new_page()
PageOpened == Step("new_page", "browsing", "new_page")

\* natural_browsing_flow; "Browsing flow failed" is raised when it reports
\* no success
BrowsingDone == Step("browsing", "watching", "Browsing flow failed")

\* watch_video_with_behavior; "Watch session failed" is raised when it
\* reports no success
WatchingDone == Step("watching", "ending", "Watch session failed")

\* end_session_naturally
SessionEnded == Step("ending", "close", "ending")

\* await self.browser.close(), the statistics, stealth.save_session
BrowserClosed ==
    /\ bot.pc = "close"
    /\ \E watch_time \in WatchTimes :
         stats' = bot_stats_after(stats, run_advanced_session("ok", watch_time))
    /\ bot' = [ bot EXCEPT !.pc = "returned", !.open = @ \ {bot.browser} ]
    /\ session_history' = save_session(session_history, sessions_created)
    /\ sessions_created' = sessions_created + 1
    /\ UNCHANGED proxy_manager
    /\ BotFrame

NextBot ==
    \/ ConstructBot
    \/ InitializeProxies
    \/ FreeProxiesFetched
    \/ FreeProxiesTested
    \/ BeginSession
    \/ PlaywrightStarted
    \/ BrowserLaunched
    \/ ContextCreated
    \/ ScriptsInjected
    \/ PageOpened
    \/ BrowsingDone
    \/ WatchingDone
    \/ SessionEnded
    \/ BrowserClosed

SpecBot == InitGui /\ [][NextBot]_vars


----------------------------------------------------------------------------
(* Properties of execute_campaign, checked under Spec *)

Range(list) == { list[k] : k \in 1..Len(list) }
Returned(c) == pc[c] \in {"returned", "done"}
Sessions(c) == cd[c].sessions
Schedule(c) == plan[c].session_schedule
Failed(session) == ~session.result.success

\* the early-stop check made after the last recorded session of c fired
LastCheckFired(c) ==
    /\ Len(Sessions(c)) > 0
    /\ should_stop_campaign(cd[c], plan[c].success_criteria,
                            Sessions(c)[Len(Sessions(c))].timestamp)

\* every entry of the schedule was run and no check stopped the campaign
RanToEnd(c) ==
    /\ Len(Sessions(c)) = Len(Schedule(c))
    /\ ~LastCheckFired(c)

NoCollaboratorRaised(c) ==
    \A k \in 1..Len(Sessions(c)) : Sessions(c)[k].result.error # "TimeoutError"

ResultKeys == {"success_rate", "average_watch_time", "detection_events",
               "met_success_criteria"}

\* C1: a campaign whose schedule was run to its end, with no early stop and
\* no collaborator raising, returns a record with status 'completed' whose
\* results hold success_rate, average_watch_time, detection_events and
\* met_success_criteria.
C1_CompletedWithResults ==
    \A c \in Campaigns :
        (Returned(c) /\ RanToEnd(c) /\ NoCollaboratorRaised(c))
            => /\ cd[c].status = "completed"
               /\ ResultKeys \subseteq DOMAIN cd[c].results

\* C2: when the first 3 sessions of a campaign all fail, the campaign ends
\* with status 'stopped_early' and the session collaborator is not called
\* for a 4th entry.
C2_StoppedEarlyAfterThreeFailures ==
    \A c \in Campaigns :
        ( /\ Returned(c)
          /\ Len(Sessions(c)) >= 3
          /\ \A k \in 1..3 : Failed(Sessions(c)[k]) )
            => /\ cd[c].status = "stopped_early"
               /\ Len(calls[c]) <= 3

\* the state right after a session of c was recorded and checked
JustChecked(c) == pc[c] \in {"loop", "finalize"} /\ Len(Sessions(c)) > 0
Elapsed(c) == Sessions(c)[Len(Sessions(c))].timestamp - cd[c].start_time
SuccessCount(c) == Cardinality({k \in 1..Len(Sessions(c)) : ~Failed(Sessions(c)[k])})
LastThree(c) == { k \in 1..Len(Sessions(c)) : k + 3 > Len(Sessions(c)) }

\* success rate of the recorded sessions below tenths/10 of min_success_rate
RunningRateBelow(c, tenths) ==
    SuccessCount(c) * 1000 * 10 <
        Len(Sessions(c)) * MinSuccessRate(plan[c].priority) * tenths

\* (b) or (c) of the stop conditions
RateConditions(c) ==
    \/ RunningRateBelow(c, 5)
    \/ /\ 2 * Elapsed(c) > 86400
       /\ RunningRateBelow(c, 7)

\* the stop conditions as stated: the last 3 sessions are all failures, (b), (c)
StatedStop(c) ==
    \/ /\ Len(Sessions(c)) >= 3
       /\ \A k \in LastThree(c) : Failed(Sessions(c)[k])
    \/ RateConditions(c)

\* the stop conditions of the code: from the 3rd session on, at least 2 of
\* the last 3 sessions are failures, (b), (c)
AmendedStop(c) ==
    /\ Len(Sessions(c)) >= 3
    /\ \/ Cardinality({k \in LastThree(c) : Failed(Sessions(c)[k])}) >= 2
       \/ RateConditions(c)

C4_SessionFailureIsContained ==
    [][ \A c \in Campaigns :
          (pc[c] = "session" /\ pc'[c] # "session") =>
              /\ Len(cd'[c].sessions) = Len(cd[c].sessions) + 1
              /\ SubSeq(cd'[c].sessions, 1, Len(cd[c].sessions)) = cd[c].sessions
              /\ LET recorded == cd'[c].sessions[Len(cd'[c].sessions)]
                 IN  Failed(recorded) =>
                       /\ recorded.result.error # None
                       /\ cd'[c].status \in {"running", "stopped_early"}
                       /\ cd'[c].status = "running" =>
                            /\ pc'[c] = "loop"
                            /\ loc'[c].i = loc[c].i + 1
                            /\ loc'[c].i = Len(cd'[c].sessions)
      ]_vars

\* a session the collaborator made fail, recorded, and the next entry called
C4_Witness ==
    \E c \in Campaigns :
        /\ Len(Sessions(c)) >= 1
        /\ Sessions(c)[1].result.error = "TimeoutError"
        /\ cd[c].status = "running"
        /\ Len(calls[c]) >= 2
        /\ calls[c][2].session_num = 2

\* C5: when an exception escapes to the handler of execute_campaign (the
\* results were never stored), the record returned has status 'failed' and
\* an error string, every session that was recorded is still in it, and the
\* campaign is in completed_campaigns and no longer in active_campaigns.
C5_CampaignFailureKeepsSessions ==
    \A c \in Campaigns :
        (Returned(c) /\ cd[c].results = EmptyDict) =>
            /\ cd[c].status = "failed"
            /\ cd[c].error # None
            /\ Len(Sessions(c)) = Len(calls[c])
            /\ \A k \in 1..Len(calls[c]) : Sessions(c)[k].session_number = k
            /\ c \notin Range(active_campaigns)
            /\ c \in Range(completed_campaigns)

\* a failed campaign that keeps the two sessions recorded before the exception
C5_Witness ==
    \E c \in Campaigns :
        /\ Returned(c)
        /\ cd[c].status = "failed"
        /\ cd[c].error = "'successful_sessions'"
        /\ Len(Sessions(c)) = 2
        /\ c \in Range(completed_campaigns)

\* C6: the session collaborator is called at most once per schedule entry,
\* in schedule order: the k-th call is for entry k, also after a failure.
C6_OneCallPerEntryInOrder ==
    \A c \in Campaigns :
        /\ Len(calls[c]) <= Len(Schedule(c))
        /\ \A k \in 1..Len(calls[c]) : calls[c][k].session_num = k

\* the entry after a failed one is called, and the failed one only once
C6_Witness ==
    \E c \in Campaigns :
        /\ Len(Sessions(c)) >= 2
        /\ Failed(Sessions(c)[1])
        /\ Len(calls[c]) = 3
        /\ calls[c][3].session_num = 3

\* C7: no session starts before the scheduled_start of its entry, and a
\* session starts only when the one before it has been recorded, so the
\* sessions of a campaign do not overlap.
C7_StartsOnScheduleAndInTurn ==
    \A c \in Campaigns :
        /\ \A k \in 1..Len(calls[c]) :
             /\ calls[c][k].session_num \in 1..Len(Schedule(c))
             /\ calls[c][k].at >= Schedule(c)[calls[c][k].session_num].scheduled_start
             /\ k > 1 => /\ Len(Sessions(c)) >= k - 1
                         /\ Sessions(c)[k - 1].timestamp <= calls[c][k].at
        /\ Len(calls[c]) = Len(Sessions(c)) + (IF pc[c] = "session" THEN 1 ELSE 0)

\* a first session that slept until its scheduled start and overran the start
\* of the second entry, which was called late, once the first was recorded
C7_Witness ==
    \E c \in Campaigns :
        /\ Len(calls[c]) >= 2
        /\ calls[c][1].at = Schedule(c)[1].scheduled_start
        /\ calls[c][2].at > Schedule(c)[2].scheduled_start
        /\ calls[c][2].at = Sessions(c)[1].timestamp

\* C8: a plan for n sessions has exactly n schedule entries numbered 1..n
\* whose scheduled_start values increase strictly, consecutive entries being
\* at least the priority's minimal session gap apart (1800 s for HIGH).
C8_ScheduleShape ==
    \A c \in Campaigns :
        pc[c] \notin {"none", "start"} =>
            /\ Len(Schedule(c)) = plan[c].total_sessions
            /\ \A k \in 1..Len(Schedule(c)) :
                 /\ Schedule(c)[k].session_number = k
                 /\ k > 1 =>
                      /\ Schedule(c)[k].scheduled_start > Schedule(c)[k - 1].scheduled_start
                      /\ Schedule(c)[k].scheduled_start - Schedule(c)[k - 1].scheduled_start
                            >= min_session_gap(plan[c].priority)
                      /\ plan[c].priority = "high" =>
                            Schedule(c)[k].scheduled_start
                                - Schedule(c)[k - 1].scheduled_start >= 1800

\* create_campaign_plan(url, 3, HIGH) with the shortest delays
C8_Witness ==
    \E c \in Campaigns :
        /\ pc[c] = "planned"
        /\ plan[c].priority = "high"
        /\ plan[c].total_sessions = 3
        /\ Schedule(c)[3].scheduled_start - Schedule(c)[2].scheduled_start = 1800

----------------------------------------------------------------------------
(* Properties of the GUI, checked under SpecGui *)

\* the campaigns with a call of run_advanced_session pending
Executing == { c \in Campaigns : pc[c] = "session" }

\* C9: at most one browser session is executing at any time, whatever the
\* interleaving of start, stop and emergency stop with the worker threads.
C9_AtMostOneSession == Cardinality(Executing) <= 1

----------------------------------------------------------------------------
(* Properties of the rotator, checked under SpecRot *)

\* the case in which the last rotate_fingerprint call had nothing to do
RotQuiet ==
    LET cur == rot_call.before.current
    IN  /\ cur # NoFingerprint
        /\ rot_call.at <= cur.created_at + 3600
        /\ ~rot_call.force_rotation
        /\ rot_call.at - cur.created_at <= rot_call.min_time_between

\* C10: rotate_fingerprint returns nothing and leaves current_fingerprint,
\* fingerprint_history and the generation counter as they were exactly when
\* there is a current identity, its time to live has not elapsed, force is
\* false and its age does not exceed min_interval; otherwise it generates a
\* new identity, makes it the current one and returns it.
C10_RotateExactlyWhenNeeded ==
    rot_call.op = "rotate" =>
        /\ RotQuiet =>
             /\ rot_call.ret = NoFingerprint
             /\ RotState = rot_call.before
        /\ ~RotQuiet =>
             /\ rot_call.ret # NoFingerprint
             /\ rot_call.ret = current_fingerprint
             /\ current_fingerprint # rot_call.before.current
             /\ current_fingerprint.created_at = rot_call.at
             /\ current_fingerprint.id \notin Range(rot_call.before.history)
             /\ fingerprints_generated = rot_call.before.generated + 1
             /\ fingerprint_history # rot_call.before.history

\* an unforced call within min_interval that rotates because the identity expired
C10_Witness ==
    /\ rot_call.op = "rotate"
    /\ ~rot_call.force_rotation
    /\ rot_call.before.current # NoFingerprint
    /\ rot_call.at - rot_call.before.current.created_at <= rot_call.min_time_between
    /\ rot_call.ret # NoFingerprint
    /\ rot_call.ret = current_fingerprint


\* C11: after the calls of generate_fingerprint and rotate_fingerprint made
\* so far have produced k identities, fingerprint_history holds exactly the
\* most recent min(50, k) of them in the order of their generation, its last
\* element is current_fingerprint, and the fingerprints_generated counter is k.
C11_HistoryIsRecentWindow ==
    LET k == current_fingerprint.id
        m == Min(50, k)
    IN  /\ Len(fingerprint_history) = m
        /\ \A j \in 1..m : fingerprint_history[j] = k - m + j
        /\ m > 0 => fingerprint_history[m] = current_fingerprint.id
        /\ fingerprints_generated = k

\* the 52nd identity was produced by rotate_fingerprint: the two oldest
\* identities have been evicted
C11_Witness ==
    /\ fingerprints_generated = 52
    /\ rot_call.op = "rotate"
    /\ rot_call.ret = current_fingerprint
    /\ Len(fingerprint_history) = 50
    /\ fingerprint_history[1] = 3

\* C12: StealthManager.session_history and BehaviorAISimulator.session_history
\* never hold more than 100 entries, and the entries kept are the most
\* recent ones (the oldest are evicted first).
C12_SessionHistoriesCapped ==
    /\ Len(session_history) <= 100
    /\ Len(view_history) <= 100
    /\ \A j \in 1..Len(session_history) :
          session_history[j] = sessions_created - Len(session_history) + j

----------------------------------------------------------------------------
(* Properties of the generated identities, checked under SpecId *)

\* the held FingerprintConfig was returned by generate_fingerprint
HeldGenerated == held.id >= 1
UaHas(word) == word \in held.user_agent.words

\* C13: every identity generate_fingerprint produces has a user agent without
\* Mobile, Android and iPhone when its device_type is desktop, and without
\* Windows and Macintosh when its device_type is mobile, and
\* validate_fingerprint reports no issue for it.
C13_UserAgentMatchesDevice ==
    HeldGenerated =>
        /\ held.device_type = "desktop" =>
              ~UaHas("Mobile") /\ ~UaHas("Android") /\ ~UaHas("iPhone")
        /\ held.device_type = "mobile" => ~UaHas("Windows") /\ ~UaHas("Macintosh")
        /\ validation.done => /\ validation.result.issues = << >>
                              /\ validation.result.valid

\* an identity of type mobile_chrome, validated
C13_Witness ==
    /\ HeldGenerated
    /\ held.device_type = "mobile"
    /\ UaHas("Android")
    /\ validation.done

\* C14: the platform of every generated identity names the operating system
\* of its user agent: Win32/Win64 only with a Windows user agent, MacIntel
\* only with a Macintosh one, Linux x86_64 only with an X11/Linux one and
\* iPhone only with an iPhone one.
C14_PlatformMatchesUserAgent ==
    HeldGenerated =>
        /\ held.platform \in {"Win32", "Win64"} => UaHas("Windows")
        /\ held.platform = "MacIntel" => UaHas("Macintosh")
        /\ held.platform = "Linux x86_64" => UaHas("X11") /\ UaHas("Linux")
        /\ held.platform = "iPhone" => UaHas("iPhone")

\* no other identity of the history carries the hash of the fingerprint (the
\* entries of the history are identified with their hashes)
HashUnique(fingerprint, history) ==
    \A j \in 1..Len(history) :
        history[j] = fingerprint.fingerprint_hash => history[j] = fingerprint.id

\* the score the statement gives for a fingerprint validated against a history
StatedScore(fingerprint, result, history) ==
    Min(100, Max(0, 100 - 20 * Len(result.issues) - 5 * Len(result.warnings)
                      + (IF HashUnique(fingerprint, history) THEN 10 ELSE 0)
                      + (IF fingerprint.browser_version >= 120 THEN 5 ELSE 0)))

\* C15: the score validate_fingerprint returns is
\* min(100, max(0, 100 - 20*|issues| - 5*|warnings| + 10 when the hash of the
\* identity is unique among the recent history + 5 when its browser major
\* version is recent)), whether the identity is in the history or not, and
\* it lies within 0..100.
C15_ScoreAsStated ==
    [][ validation' # validation =>
          /\ validation'.result.score
                = StatedScore(held, validation'.result, fingerprint_history)
          /\ validation'.result.score \in 0..100 ]_vars

----------------------------------------------------------------------------
(* Properties of the generators of BehaviorAISimulator, checked under      *)
(* SpecBehavior                                                            *)

\* C16: generate_mouse_trajectory returns between 10 and 50 points, the
\* first with exactly the start coordinates and the last with exactly the
\* end coordinates, for every start, end and style.
C16_TrajectoryEndpoints ==
    (sample.op = "generate_mouse_trajectory" /\ sample.returned = 1) =>
        /\ Len(sample.out) \in 10..50
        /\ sample.out[1] = [ x |-> sample.move[1][1], y |-> sample.move[1][2] ]
        /\ sample.out[Len(sample.out)] = [ x |-> sample.move[2][1], y |-> sample.move[2][2] ]

\* C17: every action _generate_engagement_actions returns has its time
\* within [0, watch_time], and the list is in non-decreasing order of time.
C17_ActionsWithinWatchWindow ==
    (sample.op = "generate_engagement_actions" /\ sample.returned = 1) =>
        /\ \A k \in 1..Len(sample.out) :
              0 <= sample.out[k].time /\ sample.out[k].time <= sample.watch_time
        /\ \A k \in 1..(Len(sample.out) - 1) :
              sample.out[k].time <= sample.out[k + 1].time

RECURSIVE SumAmounts(_)
SumAmounts(actions) ==
    IF actions = <<>> THEN 0 ELSE Head(actions).amount + SumAmounts(Tail(actions))

\* C18: the bursts generate_scroll_actions returns have positive amounts
\* that sum to exactly total_scroll, for every style and burst count.
C18_ScrollSplitsTotal ==
    (sample.op = "generate_scroll_actions" /\ sample.returned = 1) =>
        /\ \A k \in 1..Len(sample.out) : sample.out[k].amount > 0
        /\ SumAmounts(sample.out) = sample.total_scroll

\* the score the specification states for a pattern, in tenths:
\* 2 x (time match) + 3 x (content match) + 2 x (device bias weight)
StatedPatternScore(pattern, context) ==
    LET model == behavior_models(pattern)
        time_match == IF "time_of_day" \in DOMAIN context
                      THEN context.time_of_day \in model.preferred_times
                      ELSE "afternoon" \in model.preferred_times
        content_match == IF "content_type" \in DOMAIN context
                         THEN context.content_type \in model.content_preferences
                         ELSE "entertainment" \in model.content_preferences
        device == IF "device_type" \in DOMAIN context THEN context.device_type
                  ELSE "desktop"
        weight == IF device \in DOMAIN model.device_bias THEN model.device_bias[device]
                  ELSE 0
    IN  2 * (IF time_match THEN 10 ELSE 0) + 3 * (IF content_match THEN 10 ELSE 0)
        + 2 * weight

MorningEducationalDesktop ==
    [ time_of_day |-> "morning", content_type |-> "educational",
      device_type |-> "desktop" ]

\* C19: with a context, select_behavior_pattern returns a pattern whose
\* score 2*(time match) + 3*(content match) + 2*(device bias weight) no other
\* pattern exceeds, and returns the same pattern on every call; for
\* {morning, educational, desktop} that pattern is FOCUSED_WATCHING or
\* RESEARCH_MODE, never CASUAL_BROWSING.
C19_ContextSelectsMaxScore ==
    ( /\ sample.op = "select_behavior_pattern"
      /\ sample.returned >= 1
      /\ sample.context # EmptyDict ) =>
        /\ sample.out \in BehaviorPatterns
        /\ \A p \in BehaviorPatterns :
              StatedPatternScore(p, sample.context)
                  <= StatedPatternScore(sample.out, sample.context)
        /\ sample.returned >= 2 => sample.out = sample.before
        /\ sample.context = MorningEducationalDesktop =>
              sample.out \in {"focused_watching", "research_mode"}

\* the scenario context was selected for twice, RESEARCH_MODE both times
C19_Witness ==
    /\ sample.op = "select_behavior_pattern"
    /\ sample.context = MorningEducationalDesktop
    /\ sample.returned = 2
    /\ sample.out = "research_mode"
    /\ sample.before = "research_mode"
    /\ pattern_usage["research_mode"] = 2

(* Properties of generate_human_watch_pattern, checked under SpecWatch      *)

TutorialOf300 ==
    /\ sample.op = "generate_human_watch_pattern"
    /\ sample.returned = 1
    /\ sample.video_length = 300
    /\ sample.video_type = "tutorial"

\* C20: generate_human_watch_pattern(300, "tutorial") produces a
\* total_watch_time of at least 30 seconds and a completion_rate within
\* [10, 100] percent, whatever the retention variation, the pauses, the
\* seeks and the final noise of +/-5%.
C20_TutorialWatchWithinBounds ==
    TutorialOf300 =>
        /\ sample.out.total_watch_time >= 30
        /\ 100 <= sample.out.completion_rate
        /\ sample.out.completion_rate <= 1000

\* the longest watch of the tutorial: every variation at its upper end, the
\* shortest pause, no seek, noise of +5%
C20_Witness ==
    /\ TutorialOf300
    /\ sample.draws.spread = "b"
    /\ sample.draws.noise = 5
    /\ sample.draws.num_seeks = 0
    /\ Len(sample.out.events) >= 1
    /\ sample.out.total_watch_time = 291
    /\ sample.out.completion_rate = 970

(* Properties of the planning functions, checked under SpecPlan             *)

RiskAssessed == sample.op = "assess_campaign_risk" /\ sample.returned = 1

\* C21: for every priority, session count and content type the assessment
\* has overall_risk <= 0.95 and every sub-score is its fixed fraction of the
\* reported overall_risk (detection 0.8, technical 0.4, timing 0.6,
\* behavioral 0.7, network 0.5), so that no sub-score exceeds overall_risk.
C21_SubScoresAreFractionsOfOverall ==
    RiskAssessed =>
        LET r == sample.out
        IN  /\ r.overall_risk * 100 <= 95 * RiskScale
            /\ r.detection_risk * 10 = r.overall_risk * 8
            /\ r.technical_risk * 10 = r.overall_risk * 4
            /\ r.timing_risk * 10 = r.overall_risk * 6
            /\ r.behavioral_risk * 10 = r.overall_risk * 7
            /\ r.network_risk * 10 = r.overall_risk * 5
            /\ \A s \in { r.detection_risk, r.technical_risk, r.timing_risk,
                          r.behavioral_risk, r.network_risk } : s <= r.overall_risk

ScheduleCreated == sample.op = "create_session_schedule" /\ sample.returned = 1

GapWidth(p) == MaxGap(p) - MinGap(p)

\* C22: HIGH has the widest inter-session gap bounds and the shortest
\* per-session duration bounds of the four priorities, TEST the narrowest
\* gap bounds.
C22_HighWidestGapsShortestSessions ==
    ScheduleCreated =>
        /\ sample.priority = "high" =>
              \A p \in Priorities \ {"high"} :
                 /\ GapWidth(p) <= GapWidth("high")
                 /\ session_duration_range("high")[1] <= session_duration_range(p)[1]
                 /\ session_duration_range("high")[2] <= session_duration_range(p)[2]
        /\ sample.priority = "test" =>
              \A p \in Priorities \ {"test"} : GapWidth("test") <= GapWidth(p)

\* C23: the estimated_duration of every entry of a schedule lies within the
\* per-session duration bounds of the priority of the plan.
C23_EstimatedDurationWithinBounds ==
    ScheduleCreated =>
        \A k \in 1..Len(sample.out) :
            /\ DurationScale * session_duration_range(sample.priority)[1]
                   <= sample.out[k].estimated_duration
            /\ sample.out[k].estimated_duration
                   <= DurationScale * session_duration_range(sample.priority)[2]

(* Properties of the proxy manager, checked under SpecProxy                 *)

\* C28: after blacklist_proxy(server), no later get_proxy call returns a
\* proxy with that server address, under any selection strategy and after
\* any sequence of get_proxy, blacklist_proxy and rotate_proxies.
C28_BlacklistedNeverReturned ==
    (sample.op = "get_proxy" /\ sample.out # 0) =>
        \A k \in 1..Len(proxy_manager.blacklist) :
            proxy_manager.blacklist[k] # sample.out

(* Properties of the bot's session, checked under SpecBot                   *)

\* C24: when run_advanced_session returns, with success or with a failure
\* at any step, every browser launched during the call has been closed.
C24_LaunchedBrowsersClosed ==
    bot.pc = "returned" => bot.launched \cap bot.open = {}

\* C29: with use_proxy, the pool initialisation the constructor started has
\* completed before the first session requests a proxy, so the first
\* browser context is not created without a proxy.
C29_FirstContextHasProxy ==
    (proxy_manager.use_proxy /\ bot.sessions = 1 /\ bot.pc = "inject") =>
        /\ bot.proxy_config # 0
        /\ proxy_manager.initialize_proxies = "done"

(* Properties of the orchestrator's bookkeeping, checked under SpecOrch     *)

\* how often campaign c is in a list of campaigns
Occurrences(list, c) == Cardinality({ k \in 1..Len(list) : list[k] = c })

\* C25: after any sequence of execute_campaign calls, every campaign that
\* has returned is in completed_campaigns exactly once and not in
\* active_campaigns, and total_campaigns = successful_campaigns +
\* failed_campaigns + len(active_campaigns).
C25_ReturnedCampaignsAccounted ==
    /\ \A c \in Campaigns :
         Returned(c) => /\ Occurrences(completed_campaigns, c) = 1
                        /\ Occurrences(active_campaigns, c) = 0
    /\ metrics.total_campaigns =
           metrics.successful_campaigns + metrics.failed_campaigns
             + Len(active_campaigns)

\* a campaign has returned while another one is active
C25_Witness ==
    \E c, o \in Campaigns :
        /\ Returned(c)
        /\ Occurrences(active_campaigns, o) = 1
        /\ metrics.total_campaigns = 2

(* The gap between sessions, checked under Spec                             *)

\* C26: the actual start times of two consecutive sessions of a campaign
\* are at least the priority's min_session_gap apart, whatever the sessions
\* last, a session that overruns the next scheduled_start included.
C26_ConsecutiveStartsMinGapApart ==
    \A c \in Campaigns :
        \A k \in 1..(Len(calls[c]) - 1) :
            calls[c][k + 1].at - calls[c][k].at >= min_session_gap(plan[c].priority)

(* The watch time of every video, checked under SpecWatch                   *)

\* C27: for every video_length > 0 and every video type,
\* generate_human_watch_pattern yields a total_watch_time of at least 30
\* seconds and at most video_length, hence a completion_rate of at most
\* 100 percent.
C27_WatchTimeWithinVideo ==
    (sample.op = "generate_human_watch_pattern" /\ sample.returned = 1) =>
        /\ sample.out.total_watch_time >= 30
        /\ sample.out.total_watch_time <= sample.video_length
        /\ sample.out.completion_rate <= 1000

(* Stopping a campaign in the GUI, checked under SpecGui                    *)

\* C30: once the user has confirmed stop_campaign or emergency_stop, the
\* worker thread starts no further session of the running campaign: a
\* session is started only while is_running is set, which the two handlers
\* clear for the campaign in progress.
C30_NoSessionAfterStop ==
    [][\A c \in Campaigns : Len(calls'[c]) > Len(calls[c]) => is_running]_vars

====
